---- MODULE Spec2Model ----
(***************************************************************************)
(* Model of the DVID storage routing manager (the local storage manager    *)
(* with its package-level variable `manager`) together with the file       *)
(* based write log it routes to.                                           *)
(*                                                                         *)
(* Initialize is modelled statement block by statement block so that       *)
(* lookups running in other goroutines can observe the manager between     *)
(* any two blocks.  Go's map iteration order is unspecified, so each loop  *)
(* iteration picks any remaining key.                                      *)
(***************************************************************************)
EXTENDS Integers, Sequences, FiniteSets, TLC

VARIABLES
    setup,          \* manager.setup
    defaultKV,      \* manager.defaultKV
    defaultLog,     \* manager.defaultLog
    metadataStore,  \* manager.metadataStore
    stores,         \* manager.stores         : Alias -> store
    instanceStore,  \* manager.instanceStore  : DataSpecifier -> store
    datatypeStore,  \* manager.datatypeStore  : TypeString -> store
    instanceLog,    \* manager.instanceLog    : DataSpecifier -> write log
    datatypeLog,    \* manager.datatypeLog    : TypeString -> write log
    graphDB,        \* manager.graphDB
    gcache,         \* manager.gcache.supported (set of DataSpecifier)
    call,           \* activation record of the Initialize call in progress
    initRet,        \* what the Initialize call on this manager returned
    ret             \* what the operation that just completed returned

managerVars == <<setup, defaultKV, defaultLog, metadataStore, stores,
                 instanceStore, datatypeStore, instanceLog, datatypeLog,
                 graphDB, gcache>>

\* The write logs of one filelog store (storage/filelog) and the files of its
\* directory.
VARIABLES
    files,          \* wlogs.files : file name -> index of its *flog in flogs
    flogs,          \* every *flog made so far: [name, closed, holder]
    fs,             \* the files of the directory: name -> sequence of writes
    appends,        \* activation record of each goroutine's Append call
    closer,         \* activation record of the Close call on the store
    fatal,          \* the runtime stopped the process (concurrent map access)
    history,        \* name -> records of the Append calls that returned nil
    nAppends,       \* number of Append calls made so far
    overlap         \* some Append call began while another was in progress

filelogVars == <<files, flogs, fs, appends, closer, fatal, history, nAppends,
                 overlap>>

\* The log message queue of package dvid.
VARIABLES
    mode,           \* the package variable mode
    logCh,          \* the messages buffered in the channel logCh
    logChClosed,    \* close(logCh) has been executed
    consumer,       \* the goroutine that init starts: [pc, msg]
    written,        \* the messages the consumer has passed to msg.f, in order
    callers,        \* activation record of each goroutine's logging call
    shutdown,       \* activation record of the Shutdown call
    nIssued,        \* number of logging calls that went on to send
    nAccepted       \* number of messages that went into logCh

logVars == <<mode, logCh, logChClosed, consumer, written, callers, shutdown,
             nIssued, nAccepted>>

\* The index of one labelsz data instance.
VARIABLES
    index,          \* the instance's key-value pairs: type key -> value bytes
    rwmutex,        \* the instance's sync.RWMutex: [readers, writer]
    mutator,        \* activation record of the handler of annotation events
    reader          \* activation record of the goroutine that reads the index

labelszVars == <<index, rwmutex, mutator, reader>>

\* The version DAG of the datastore and the versioned key-value pairs.
VARIABLES
    dag,            \* the versions in order of creation: [parent, locked]
    versioned       \* <<type key, version>> -> the value written there

datastoreVars == <<dag, versioned>>

\* The syncs of the labelsz data instances.
VARIABLES
    syncedData      \* data name -> the names its SyncedData() holds

syncVars == <<syncedData>>

\* The service of the datastore and the metadata store of its directory.
VARIABLES
    service,        \* "open" between Open and Shutdown, else "shutdown"
    instances,      \* <<root version, data name>> -> the data instance
    metadata        \* the metadata store: [buffer, disk]; buffer has the
                    \* written configuration that waits for the flush

serviceVars == <<service, instances, metadata>>

\* The static ROI of one labelsz data instance and the goroutines that
\* handle its annotation events.
VARIABLES
    staticROI,      \* d.StaticROI, "" if none is configured
    iMutex,         \* d.iMutex: the goroutine that holds it, or NoHolder
    iROI,           \* d.iROI: the immutable ROI, or NilROI
    roiChecked,     \* d.roiChecked
    handlers,       \* activation record of each goroutine's event handling
    nLoads,         \* number of calls of roi.ImmutableBySpec made so far
    nEvents         \* number of annotation events received so far

roiVars == <<staticROI, iMutex, iROI, roiChecked, handlers, nLoads, nEvents>>

routingVars == <<managerVars, call, initRet>>

vars == <<setup, defaultKV, defaultLog, metadataStore, stores,
          instanceStore, datatypeStore, instanceLog, datatypeLog,
          graphDB, gcache, call, initRet, ret, filelogVars, logVars,
          labelszVars, datastoreVars, syncVars, serviceVars, roiVars>>

\* what the operations of the storage manager leave alone
outsideManager ==
    <<filelogVars, logVars, labelszVars, datastoreVars, syncVars,
      serviceVars, roiVars>>

\* what the operations of the write logs leave alone
outsideFilelog ==
    <<routingVars, ret, logVars, labelszVars, datastoreVars, syncVars,
      serviceVars, roiVars>>

\* what the operations of the log message queue leave alone, but for ret
outsideLog ==
    <<routingVars, filelogVars, labelszVars, datastoreVars, syncVars,
      serviceVars, roiVars>>

----------------------------------------------------------------------------
(* Values *)

NoErr == ""

NoAlias == ""

\* A nil dvid.Store / WriteLog / GraphDB interface value.
NilStore == [engine |-> "", path |-> <<>>]

\* A Go map that is nil or empty.
EmptyMap == <<>>

TempDir == <<"tmp">>

\* Store configurations (dvid.StoreConfig): the engine name and the keys
\* "path" and "testing" of the configuration mapping.
StoreConfig(e, hp, p, t) ==
    [engine |-> e, hasPath |-> hp, path |-> p, testing |-> t]

KvX == StoreConfig("basholeveldb", TRUE, <<"x">>, FALSE)

KvY == StoreConfig("basholeveldb", TRUE, <<"y">>, FALSE)

LogTmpX == StoreConfig("filelog", TRUE, <<"tmp", "x">>, FALSE)

LogTmpY == StoreConfig("filelog", TRUE, <<"tmp", "y">>, FALSE)

\* path "x" with testing = true is opened under the temporary directory
LogXTesting == StoreConfig("filelog", TRUE, <<"x">>, TRUE)

LogNoPath == StoreConfig("filelog", FALSE, <<>>, FALSE)

\* Keys of backend.KVStore / backend.LogStore: the raw string, kept as its
\* ":"-separated parts and whether it is wrapped in double quotes.
DataSpec(q, ps) == [quoted |-> q, parts |-> ps]

SpecDefault == DataSpec(FALSE, <<"default">>)

SpecMetadata == DataSpec(FALSE, <<"metadata">>)

SpecT1 == DataSpec(FALSE, <<"t1">>)

SpecLabelgraph == DataSpec(FALSE, <<"labelgraph">>)

SpecInst == DataSpec(TRUE, <<"n1", "r1">>)

SpecBad == DataSpec(FALSE, <<"n1", "r1", "extra">>)

\* dvid.GetDataSpecifier
GetDataSpecifier(name, root) == <<name, root>>

InstanceNames == {"n1", "n2"}

Roots == {"r1"}

TypeStrings == {"t1", "t2"}

PartialFns(K, V) == UNION {[D -> V] : D \in SUBSET K}

----------------------------------------------------------------------------
(* The filelog engine *)

\* parseConfig: the path the configuration denotes, or an error.
parseConfig(config) ==
    IF ~config.hasPath
        THEN [path |-> <<>>, testing |-> FALSE, err |-> "path must be specified"]
        ELSE [path    |-> IF config.testing THEN TempDir \o config.path
                                            ELSE config.path,
              testing |-> config.testing,
              err     |-> NoErr]

\* NewStore with `created = true` set whether or not the path existed
NewStore_AlwaysCreated(config, exists) ==
    LET p == parseConfig(config) IN
    IF p.err # NoErr
        THEN [store |-> NilStore, created |-> FALSE, err |-> p.err]
        ELSE [store   |-> [engine |-> config.engine, path |-> p.path],
              created |-> TRUE,
              err     |-> NoErr]

\* Engine.NewStore / newWriteLogs.  `exists` is what os.Stat finds at the path.
NewStore(config, exists) ==
    LET p == parseConfig(config) IN
    IF p.err # NoErr
        THEN [store |-> NilStore, created |-> FALSE, err |-> p.err]
        ELSE [store   |-> [engine |-> config.engine, path |-> p.path],
              created |-> ~exists,
              err     |-> NoErr]

\* Equal comparing the path as written in the configuration
Equal_RawPath(store, config) ==
    IF ~config.hasPath THEN FALSE ELSE config.path = store.path

\* writeLogs.Equal
Equal(store, config) ==
    LET p == parseConfig(config) IN
    IF p.err # NoErr THEN FALSE ELSE p.path = store.path

\* a type assertion that every store passes
IsWriteLog_Any(store) == TRUE

\* store.(WriteLog): writeLogs implements Append.
IsWriteLog(store) == store.engine = "filelog"

\* store.(OrderedKeyValueDB) / store.(KeyValueDB)
IsOrderedKeyValueDB(store) == store.engine = "basholeveldb"

IsKeyValueDB(store) == store.engine = "basholeveldb"

\* NewGraphStore(kvdb): the graph database layered over kvdb.
NewGraphStore(kvdb) == kvdb

----------------------------------------------------------------------------
(* Lookups: each reads the manager and returns (value, error) *)

Result(store, err) == [store |-> store, wrapped |-> FALSE, err |-> err]

AllStores ==
    IF ~setup
        THEN [stores |-> EmptyMap, err |-> "Storage manager not initialized"]
        ELSE [stores |-> stores, err |-> NoErr]

DefaultKVStore ==
    IF ~setup THEN Result(NilStore, "Storage manager not initialized")
    ELSE IF defaultKV = NilStore
        THEN Result(NilStore, "No default kv store has been initialized")
        ELSE Result(defaultKV, NoErr)

DefaultLogStore ==
    IF ~setup THEN Result(NilStore, "Storage manager not initialized")
    ELSE IF defaultLog = NilStore
        THEN Result(NilStore, "No default log store has been initialized")
        ELSE Result(defaultLog, NoErr)

MetaDataKVStore ==
    IF ~setup THEN Result(NilStore, "Storage manager not initialized")
    ELSE IF ~IsOrderedKeyValueDB(metadataStore)
        THEN Result(NilStore, "Metadata store is not an ordered key-value store")
        ELSE Result(metadataStore, NoErr)

DefaultKVDB ==
    IF ~setup THEN Result(NilStore, "Storage manager not initialized")
    ELSE IF ~IsKeyValueDB(defaultKV)
        THEN Result(NilStore, "Default store is not a key-value store")
        ELSE Result(defaultKV, NoErr)

DefaultOrderedKVDB ==
    IF ~setup THEN Result(NilStore, "Storage manager not initialized")
    ELSE IF ~IsOrderedKeyValueDB(defaultKV)
        THEN Result(NilStore, "Default store is not an ordered key-value store")
        ELSE Result(defaultKV, NoErr)

\* GraphStore without the setup check
GraphStore_NoGuard == Result(graphDB, NoErr)

GraphStore ==
    IF ~setup THEN Result(NilStore, "Storage manager not initialized")
    ELSE Result(graphDB, NoErr)

GetStoreByAlias(alias) ==
    IF ~setup THEN Result(NilStore, "Storage manager not initialized")
    ELSE IF alias \notin DOMAIN stores
        THEN Result(NilStore, "could not find store with alias")
        ELSE Result(stores[alias], NoErr)

assignedStoreByType(typename) ==
    IF ~setup THEN Result(NilStore, "Storage manager not initialized")
    ELSE IF typename \notin DOMAIN datatypeStore
        THEN Result(defaultKV, NoErr)
        ELSE Result(datatypeStore[typename], NoErr)

\* The groupcache wrapper caches GETs of a KeyValueDB; a store that is not
\* one is handed back unwrapped together with an error.
\* wrapGroupcache handing back nil with its error
wrapGroupcache_Nil(store) ==
    IF IsKeyValueDB(store)
        THEN [store |-> store, wrapped |-> TRUE, err |-> NoErr]
        ELSE [store |-> NilStore, wrapped |-> FALSE, err |-> "not a KeyValueDB"]

wrapGroupcache(store) ==
    IF IsKeyValueDB(store)
        THEN [store |-> store, wrapped |-> TRUE, err |-> NoErr]
        ELSE [store |-> store, wrapped |-> FALSE, err |-> "not a KeyValueDB"]

\* GetAssignedStore consulting the datatype assignment before the instance's
GetAssignedStore_TypeFirst(dataname, root, typename) ==
    IF ~setup THEN Result(NilStore, "Storage manager not initialized")
    ELSE
        LET dataid == GetDataSpecifier(dataname, root)
            store  == IF typename \in DOMAIN datatypeStore
                          THEN datatypeStore[typename]
                      ELSE IF dataid \in DOMAIN instanceStore
                          THEN instanceStore[dataid]
                      ELSE defaultKV
        IN  IF dataid \in gcache
                THEN [store   |-> wrapGroupcache(store).store,
                      wrapped |-> wrapGroupcache(store).wrapped,
                      err     |-> NoErr]
                ELSE Result(store, NoErr)

GetAssignedStore(dataname, root, typename) ==
    IF ~setup THEN Result(NilStore, "Storage manager not initialized")
    ELSE
        LET dataid == GetDataSpecifier(dataname, root)
            found  == dataid \in DOMAIN instanceStore
            bytype == assignedStoreByType(typename)
        IN  IF ~found /\ bytype.err # NoErr
                THEN Result(NilStore, "Cannot get assigned store")
                ELSE
                    LET store == IF found THEN instanceStore[dataid]
                                          ELSE bytype.store
                    IN  IF dataid \in gcache
                            THEN [store   |-> wrapGroupcache(store).store,
                                  wrapped |-> wrapGroupcache(store).wrapped,
                                  err     |-> NoErr]
                            ELSE Result(store, NoErr)

\* assignedLogByType that forgets the default log
assignedLogByType_NoDefault(typename) ==
    IF ~setup THEN Result(NilStore, "Storage manager not initialized")
    ELSE IF typename \notin DOMAIN datatypeLog
        THEN Result(NilStore, NoErr)
        ELSE Result(datatypeLog[typename], NoErr)

assignedLogByType(typename) ==
    IF ~setup THEN Result(NilStore, "Storage manager not initialized")
    ELSE IF typename \notin DOMAIN datatypeLog
        THEN IF defaultLog = NilStore
                THEN Result(NilStore, NoErr)
                ELSE Result(defaultLog, NoErr)
        ELSE Result(datatypeLog[typename], NoErr)

GetAssignedLog(dataname, root, typename) ==
    IF ~setup THEN Result(NilStore, "Storage manager not initialized")
    ELSE
        LET dataid == GetDataSpecifier(dataname, root)
            found  == dataid \in DOMAIN instanceLog
            bytype == assignedLogByType(typename)
        IN  IF ~found /\ bytype.err # NoErr
                THEN Result(NilStore, "Cannot get assigned log")
                ELSE IF found THEN Result(instanceLog[dataid], NoErr)
                              ELSE Result(bytype.store, NoErr)

\* DeleteDataInstance(data), where data.KVStore() is the store assigned to
\* the data instance.  The result's store is the one whose keys were deleted.
DeleteDataInstance(dataname, root, typename) ==
    IF ~setup THEN Result(NilStore, "Can't delete data instance before storage manager is initialized")
    ELSE
        LET kv == GetAssignedStore(dataname, root, typename) IN
        IF kv.err # NoErr THEN Result(NilStore, kv.err)
        ELSE IF ~IsOrderedKeyValueDB(kv.store)
            THEN Result(NilStore, "store assigned to data is not an ordered kv db")
            ELSE Result(kv.store, NoErr)

----------------------------------------------------------------------------
(* Initialize *)

IdleCall ==
    [pc |-> "idle", backend |-> <<>>, disk |-> {}, todo |-> {},
     gotDefault |-> FALSE, gotMetadata |-> FALSE,
     createdMetadata |-> FALSE, createdDefault |-> FALSE,
     lastCreated |-> FALSE, lastStore |-> NilStore]

NoRet == [op |-> "none"]

NoInitRet == [called |-> FALSE, createdMetadata |-> FALSE, err |-> NoErr,
              backend |-> <<>>, disk |-> {}]

\* return (created, err) from Initialize; the arguments of the call are kept
\* with the result.
Return(created, err) ==
    /\ call' = IdleCall
    /\ initRet' = [called |-> TRUE, createdMetadata |-> created, err |-> err,
                   backend |-> call.backend, disk |-> call.disk]
    /\ ret' = NoRet

\* strings.Split(strings.Trim(dataspec, "\""), ":")
SplitSpec(dataspec) == dataspec.parts

\* dataspec == "default": the raw key, quotes included, is compared
IsRawKey(dataspec, word) == ~dataspec.quoted /\ dataspec.parts = <<word>>

\* m[k] = v on a Go map
MapSet(m, k, v) == [x \in DOMAIN m \cup {k} |-> IF x = k THEN v ELSE m[x]]

\* os.Stat(path): whether the directory of the store is on the disk
Exists(disk, config) == parseConfig(config).path \in disk

\* manager.stores = make(...) and the declaration of the locals.  disk is the
\* set of directories that exist when Initialize is called.
InitializeBegin(backend, disk) ==
    /\ call.pc = "idle"
    /\ stores' = EmptyMap
    /\ call' = [IdleCall EXCEPT !.pc = "stores", !.backend = backend,
                                !.disk = disk,
                                !.todo = DOMAIN backend.Stores]
    /\ initRet' = NoInitRet
    /\ ret' = NoRet
    /\ UNCHANGED <<setup, defaultKV, defaultLog, metadataStore, instanceStore,
                   datatypeStore, instanceLog, datatypeLog, graphDB, gcache>>
    /\ UNCHANGED outsideManager

\* one iteration of `for alias, dbconfig := range backend.Stores`
InitializeOpenStore(alias) ==
    /\ call.pc = "stores"
    /\ alias \in call.todo
    /\ LET backend  == call.backend
           dbconfig == backend.Stores[alias]
           opened   == NewStore(dbconfig, Exists(call.disk, dbconfig))
           store    == opened.store
           created  == opened.created
       IN
       IF \E dbalias \in DOMAIN stores : Equal(stores[dbalias], dbconfig)
       THEN /\ Return(FALSE, "configuration is duplicate")
            /\ UNCHANGED managerVars
       ELSE IF opened.err # NoErr
       THEN /\ Return(FALSE, "bad store")
            /\ UNCHANGED managerVars
       ELSE
            /\ metadataStore' = IF alias = backend.Metadata
                                    THEN store ELSE metadataStore
            /\ defaultKV' = IF alias = backend.DefaultKVDB
                                THEN store ELSE defaultKV
            /\ IF alias = backend.DefaultLog /\ ~IsWriteLog(store)
               THEN /\ defaultLog' = NilStore
                    /\ Return(FALSE, "not valid write log")
                    /\ UNCHANGED stores
               ELSE /\ defaultLog' = IF alias = backend.DefaultLog
                                         THEN store ELSE defaultLog
                    /\ stores' = MapSet(stores, alias, store)
                    /\ call' = [call EXCEPT
                          !.todo = call.todo \ {alias},
                          !.gotMetadata = call.gotMetadata
                                            \/ alias = backend.Metadata,
                          !.createdMetadata = IF alias = backend.Metadata
                                THEN created ELSE call.createdMetadata,
                          !.gotDefault = call.gotDefault
                                            \/ alias = backend.DefaultKVDB,
                          !.createdDefault = IF alias = backend.DefaultKVDB
                                THEN created ELSE call.createdDefault,
                          !.lastStore = store,
                          !.lastCreated = created]
                    /\ ret' = NoRet
                    /\ UNCHANGED initRet
            /\ UNCHANGED <<setup, instanceStore, datatypeStore, instanceLog,
                           datatypeLog, graphDB, gcache>>
    /\ UNCHANGED outsideManager

\* len(backend.Stores) >= 1
SingleStore_AtLeastOne(backend) == Cardinality(DOMAIN backend.Stores) >= 1

\* len(backend.Stores) == 1
SingleStore(backend) == Cardinality(DOMAIN backend.Stores) = 1

\* setupGroupcache(backend.Groupcache): records the instances to be cached.
setupGroupcache(config) == config

\* after the loop: the default and metadata stores, the groupcache and the
\* (empty) store assignment maps
InitializeDefaults ==
    /\ call.pc = "stores"
    /\ call.todo = {}
    /\ LET backend == call.backend IN
       IF ~call.gotDefault /\ ~SingleStore(backend)
       THEN /\ Return(FALSE, "either backend.default or a single store must be set")
            /\ UNCHANGED managerVars
       ELSE
         LET newDefaultKV == IF call.gotDefault THEN defaultKV
                                                ELSE call.lastStore
             createdDefault == IF call.gotDefault THEN call.createdDefault
                                                  ELSE call.lastCreated
         IN
            /\ defaultKV' = newDefaultKV
            /\ metadataStore' = IF call.gotMetadata THEN metadataStore
                                                    ELSE newDefaultKV
            /\ gcache' = setupGroupcache(backend.Groupcache)
            /\ instanceStore' = EmptyMap
            /\ datatypeStore' = EmptyMap
            /\ call' = [call EXCEPT
                  !.pc = "kvstore",
                  !.todo = DOMAIN backend.KVStore,
                  !.createdDefault = createdDefault,
                  !.createdMetadata = IF call.gotMetadata
                        THEN call.createdMetadata ELSE createdDefault]
            /\ ret' = NoRet
            /\ UNCHANGED <<setup, defaultLog, stores, instanceLog, datatypeLog,
                           graphDB, initRet>>
    /\ UNCHANGED outsideManager

\* one iteration of `for dataspec, alias := range backend.KVStore`
InitializeKVStore(dataspec) ==
    /\ call.pc = "kvstore"
    /\ dataspec \in call.todo
    /\ LET alias == call.backend.KVStore[dataspec]
           parts == SplitSpec(dataspec)
           next  == [call EXCEPT !.todo = call.todo \ {dataspec}]
       IN
       IF IsRawKey(dataspec, "default") \/ IsRawKey(dataspec, "metadata")
       THEN /\ call' = next
            /\ ret' = NoRet
            /\ UNCHANGED <<managerVars, initRet>>
       ELSE IF alias \notin DOMAIN stores
       THEN /\ Return(FALSE, "bad backend store alias")
            /\ UNCHANGED managerVars
       ELSE IF Len(parts) = 1
       THEN /\ datatypeStore' = MapSet(datatypeStore, parts[1], stores[alias])
            /\ call' = next
            /\ ret' = NoRet
            /\ UNCHANGED <<setup, defaultKV, defaultLog, metadataStore, stores,
                           instanceStore, instanceLog, datatypeLog, graphDB,
                           gcache, initRet>>
       ELSE IF Len(parts) = 2
       THEN /\ instanceStore' = MapSet(instanceStore,
                    GetDataSpecifier(parts[1], parts[2]), stores[alias])
            /\ call' = next
            /\ ret' = NoRet
            /\ UNCHANGED <<setup, defaultKV, defaultLog, metadataStore, stores,
                           datatypeStore, instanceLog, datatypeLog, graphDB,
                           gcache, initRet>>
       ELSE /\ Return(FALSE, "bad backend data specification")
            /\ UNCHANGED managerVars
    /\ UNCHANGED outsideManager

\* the (empty) log assignment maps
InitializeLogMaps ==
    /\ call.pc = "kvstore"
    /\ call.todo = {}
    /\ instanceLog' = EmptyMap
    /\ datatypeLog' = EmptyMap
    /\ call' = [call EXCEPT !.pc = "logstore",
                            !.todo = DOMAIN call.backend.LogStore]
    /\ ret' = NoRet
    /\ UNCHANGED <<setup, defaultKV, defaultLog, metadataStore, stores,
                   instanceStore, datatypeStore, graphDB, gcache, initRet>>
    /\ UNCHANGED outsideManager

\* one iteration of `for dataspec, alias := range backend.LogStore`
InitializeLogStore(dataspec) ==
    /\ call.pc = "logstore"
    /\ dataspec \in call.todo
    /\ LET alias == call.backend.LogStore[dataspec]
           parts == SplitSpec(dataspec)
           next  == [call EXCEPT !.todo = call.todo \ {dataspec}]
       IN
       IF IsRawKey(dataspec, "default")
       THEN /\ call' = next
            /\ ret' = NoRet
            /\ UNCHANGED <<managerVars, initRet>>
       ELSE IF alias \notin DOMAIN stores
       THEN /\ Return(FALSE, "bad backend store alias")
            /\ UNCHANGED managerVars
       ELSE IF ~IsWriteLog(stores[alias])
       THEN /\ Return(FALSE, "not a valid write log")
            /\ UNCHANGED managerVars
       ELSE IF Len(parts) = 1
       THEN /\ datatypeLog' = MapSet(datatypeLog, parts[1], stores[alias])
            /\ call' = next
            /\ ret' = NoRet
            /\ UNCHANGED <<setup, defaultKV, defaultLog, metadataStore, stores,
                           instanceStore, datatypeStore, instanceLog, graphDB,
                           gcache, initRet>>
       ELSE IF Len(parts) = 2
       THEN /\ instanceLog' = MapSet(instanceLog,
                    GetDataSpecifier(parts[1], parts[2]), stores[alias])
            /\ call' = next
            /\ ret' = NoRet
            /\ UNCHANGED <<setup, defaultKV, defaultLog, metadataStore, stores,
                           instanceStore, datatypeStore, datatypeLog, graphDB,
                           gcache, initRet>>
       ELSE /\ Return(FALSE, "bad backend data specification")
            /\ UNCHANGED managerVars
    /\ UNCHANGED outsideManager

\* manager.setup = true
InitializeSetup ==
    /\ call.pc = "logstore"
    /\ call.todo = {}
    /\ setup' = TRUE
    /\ call' = [call EXCEPT !.pc = "graph"]
    /\ ret' = NoRet
    /\ UNCHANGED <<defaultKV, defaultLog, metadataStore, stores, instanceStore,
                   datatypeStore, instanceLog, datatypeLog, graphDB, gcache,
                   initRet>>
    /\ UNCHANGED outsideManager

\* "Setup the graph store" and the final return
InitializeGraph ==
    /\ call.pc = "graph"
    /\ LET assigned == assignedStoreByType("labelgraph") IN
       IF assigned.err # NoErr
       THEN /\ Return(call.createdMetadata, assigned.err)
            /\ UNCHANGED managerVars
       ELSE IF ~IsOrderedKeyValueDB(assigned.store)
       THEN /\ Return(FALSE, "assigned labelgraph store isn't ordered kv db")
            /\ UNCHANGED managerVars
       ELSE /\ graphDB' = NewGraphStore(assigned.store)
            /\ Return(call.createdMetadata, NoErr)
            /\ UNCHANGED <<setup, defaultKV, defaultLog, metadataStore, stores,
                           instanceStore, datatypeStore, instanceLog,
                           datatypeLog, gcache>>
    /\ UNCHANGED outsideManager

----------------------------------------------------------------------------
(* Close *)

\* closed: the aliases whose store.Close() is called by the loop
Close ==
    /\ call.pc = "idle"
    /\ setup' = FALSE
    /\ defaultKV' = NilStore
    /\ defaultLog' = NilStore
    /\ metadataStore' = NilStore
    /\ stores' = EmptyMap
    /\ instanceStore' = EmptyMap
    /\ datatypeStore' = EmptyMap
    /\ instanceLog' = EmptyMap
    /\ datatypeLog' = EmptyMap
    /\ graphDB' = NilStore
    /\ gcache' = {}
    /\ initRet' = NoInitRet
    /\ ret' = [op |-> "Close",
               closed |-> IF setup THEN DOMAIN stores ELSE {}]
    /\ UNCHANGED call
    /\ UNCHANGED outsideManager

----------------------------------------------------------------------------
(* Lookup calls, which may run at any time, also while Initialize runs *)

Returns(op, args, val) ==
    /\ ret' = [op |-> op, args |-> args, val |-> val]
    /\ UNCHANGED <<managerVars, call, initRet>>
    /\ UNCHANGED outsideManager

CallAllStores == Returns("AllStores", <<>>, AllStores)

CallDefaultKVStore == Returns("DefaultKVStore", <<>>, DefaultKVStore)

CallDefaultLogStore == Returns("DefaultLogStore", <<>>, DefaultLogStore)

CallMetaDataKVStore == Returns("MetaDataKVStore", <<>>, MetaDataKVStore)

CallDefaultKVDB == Returns("DefaultKVDB", <<>>, DefaultKVDB)

CallDefaultOrderedKVDB ==
    Returns("DefaultOrderedKVDB", <<>>, DefaultOrderedKVDB)

CallGraphStore == Returns("GraphStore", <<>>, GraphStore)

CallGetStoreByAlias(alias) ==
    Returns("GetStoreByAlias", <<alias>>, GetStoreByAlias(alias))

CallGetAssignedStore(n, r, t) ==
    Returns("GetAssignedStore", <<n, r, t>>, GetAssignedStore(n, r, t))

CallGetAssignedLog(n, r, t) ==
    Returns("GetAssignedLog", <<n, r, t>>, GetAssignedLog(n, r, t))

CallDeleteDataInstance(n, r, t) ==
    Returns("DeleteDataInstance", <<n, r, t>>, DeleteDataInstance(n, r, t))

Lookups ==
    \/ CallAllStores
    \/ CallDefaultKVStore
    \/ CallDefaultLogStore
    \/ CallMetaDataKVStore
    \/ CallDefaultKVDB
    \/ CallDefaultOrderedKVDB
    \/ CallGraphStore
    \/ \E alias \in {"a", "z"} : CallGetStoreByAlias(alias)
    \/ \E n \in InstanceNames, r \in Roots, t \in TypeStrings :
          \/ CallGetAssignedStore(n, r, t)
          \/ CallGetAssignedLog(n, r, t)
          \/ CallDeleteDataInstance(n, r, t)

----------------------------------------------------------------------------
(* Configurations handed to Initialize *)

Backend(S, m, d, l, kv, lg, gc) ==
    [Stores |-> S, Metadata |-> m, DefaultKVDB |-> d, DefaultLog |-> l,
     KVStore |-> kv, LogStore |-> lg, Groupcache |-> gc]

\* an alias that no [store.<alias>] section defines
Undefined == "z"

\* the largest number of [store.<alias>] sections in the configurations that
\* vary the stores
MaxStores == 2

StartupAliases == {<<"a", "b", "c">>[i] : i \in 1..MaxStores}

\* Configurations that differ in their stores and default aliases and make
\* no per-datatype or per-instance assignment.
StartupBackends ==
    {Backend(S, m, d, l, EmptyMap, EmptyMap, {}) :
        S \in PartialFns(StartupAliases, {KvX, LogTmpX, LogXTesting}),
        m \in {NoAlias, "b", Undefined},
        d \in {NoAlias, "a", Undefined},
        l \in {NoAlias, "b"}}
    \cup
    {Backend(S, NoAlias, "a", l, EmptyMap, EmptyMap, {}) :
        S \in {("a" :> LogNoPath), ("a" :> KvX) @@ ("b" :> LogNoPath),
               ("a" :> KvX)},
        l \in {NoAlias, Undefined}}

StartupDisks == {{}, {<<"tmp", "x">>}}

KVStores == ("a" :> KvX) @@ ("b" :> KvY) @@ ("c" :> LogTmpX)

KVMaps ==
    PartialFns({SpecT1, SpecInst}, {"a", "b", Undefined})
        \cup {(SpecBad :> "a"), (SpecDefault :> Undefined),
              (SpecMetadata :> Undefined), (SpecLabelgraph :> "b"),
              (SpecLabelgraph :> "c"), (SpecInst :> "c")}

\* Configurations that differ in their store assignments.
KVBackends ==
    {Backend(KVStores, NoAlias, "a", NoAlias, kv, EmptyMap, gc) :
        kv \in KVMaps, gc \in {{}, {GetDataSpecifier("n1", "r1")}}}

LogStores == ("a" :> KvX) @@ ("b" :> LogTmpY) @@ ("c" :> LogTmpX)

LogMaps ==
    PartialFns({SpecT1, SpecInst}, {"a", "b", Undefined})
        \cup {(SpecBad :> "b"), (SpecDefault :> Undefined)}

\* Configurations that differ in their log assignments, without and with
\* store assignments for the same datatype and data instance.
LogBackends ==
    {Backend(LogStores, NoAlias, "a", l, EmptyMap, lg, {}) :
        lg \in LogMaps, l \in {NoAlias, "c"}}
    \cup
    {Backend(LogStores, NoAlias, "a", l, (SpecT1 :> "a") @@ (SpecInst :> "a"),
             lg, {}) :
        lg \in {EmptyMap, (SpecT1 :> "b")}, l \in {NoAlias, "c"}}

\* A few configurations for a manager that is initialized again.
ReinitBackends ==
    {Backend(KVStores, NoAlias, "a", "c",
             (SpecT1 :> "b") @@ (SpecInst :> "b"), (SpecT1 :> "c"),
             {GetDataSpecifier("n1", "r1")}),
     Backend(("a" :> KvY), NoAlias, NoAlias, NoAlias, EmptyMap, EmptyMap, {}),
     Backend(("a" :> LogTmpX), NoAlias, NoAlias, "a", EmptyMap, EmptyMap, {})}

----------------------------------------------------------------------------
(* Specification: Initialize is called on a manager that is closed *)

\* the goroutines that call Append on the write logs
Goroutines == {"g1", "g2"}

\* no *flog holds a file
NoFlog == 0

\* a goroutine that is not inside Append
IdleAppend ==
    [pc |-> "idle", name |-> <<>>, entryType |-> 0, p |-> <<>>, fl |-> NoFlog,
     id |-> 0]

IdleCloser == [pc |-> "idle", todo |-> {}]

\* newWriteLogs has just returned and the directory holds no log file
FilelogInit ==
    /\ files = EmptyMap
    /\ flogs = <<>>
    /\ fs = EmptyMap
    /\ appends = [g \in Goroutines |-> IdleAppend]
    /\ closer = IdleCloser
    /\ fatal = FALSE
    /\ history = EmptyMap
    /\ nAppends = 0
    /\ overlap = FALSE

\* ModeFlag
DebugMode == 0

InfoMode == 1

WarningMode == 2

ErrorMode == 3

CriticalMode == 4

SilentMode == 5

\* the goroutines that make logging calls
Callers == {"c1", "c2"}

NoMessage == [id |-> 0, f |-> ""]

\* a goroutine that is not inside a logging call
IdleCaller == [pc |-> "idle", msg |-> NoMessage]

\* Shutdown has not been called; `before` is the number of messages that
\* had gone into logCh when it was called
NoShutdown == [pc |-> "idle", before |-> 0]

\* the package variables and init(): mode is InfoMode, logCh is empty and
\* the consumer waits in `for msg := range logCh`
LogInit ==
    /\ mode = InfoMode
    /\ logCh = <<>>
    /\ logChClosed = FALSE
    /\ consumer = [pc |-> "range", msg |-> NoMessage]
    /\ written = <<>>
    /\ callers = [c \in Callers |-> IdleCaller]
    /\ shutdown = NoShutdown
    /\ nIssued = 0
    /\ nAccepted = 0

\* a labelsz data instance that has indexed nothing
\* an annotation event: its kind, the index type of the element and the
\* labels it leaves (old) and enters (new), 0 where the kind has none
Event(kind, i, old, new) == [kind |-> kind, i |-> i, old |-> old, new |-> new]

NoEvent == Event("", 0, 0, 0)

IdleMutator ==
    [pc |-> "idle", event |-> NoEvent, todo |-> <<>>, c |-> 0, c2 |-> 0,
     err |-> NoErr, before |-> EmptyMap]

IdleReader ==
    [pc |-> "idle", op |-> "", args |-> <<>>, seen |-> <<>>,
     result |-> <<>>]

\* a zero sync.RWMutex, no event being handled and no read in progress
LabelszIdle ==
    /\ rwmutex = [readers |-> {}, writer |-> FALSE]
    /\ mutator = IdleMutator
    /\ reader = IdleReader

LabelszInit == index = EmptyMap /\ LabelszIdle

\* the names of the data instances, in ascending order
DataNames == <<"node1image", "node2image">>

\* the keys <<root version, data name>> of a DAG of n versions, ascending
KeyOrder(n) ==
    [j \in 1..(n * Len(DataNames)) |->
        <<((j - 1) \div Len(DataNames)) + 1,
          DataNames[((j - 1) % Len(DataNames)) + 1]>>]

\* The stored form of the datasets configuration: one pair of numbers for
\* each version and one tuple for each data instance, in ascending order of
\* the keys.
EncodeDatasets(d, inst) ==
    LET present == SelectSeq(KeyOrder(Len(d)), LAMBDA k : k \in DOMAIN inst)
    IN  [versions |-> [v \in 1..Len(d) |->
                          <<d[v].parent, IF d[v].locked THEN 1 ELSE 0>>],
         data |-> [j \in 1..Len(present) |->
                      <<present[j][1], present[j][2],
                        inst[present[j]].typename,
                        IF inst[present[j]].versioned THEN 1 ELSE 0>>]]

\* the DAG and the data instances that a stored form holds
DecodeDatasets(b) ==
    [dag |-> [v \in 1..Len(b.versions) |->
                 [parent |-> b.versions[v][1],
                  locked |-> b.versions[v][2] = 1]],
     instances |->
         [k \in {<<b.data[j][1], b.data[j][2]>> : j \in 1..Len(b.data)} |->
             LET j == CHOOSE x \in 1..Len(b.data) :
                          <<b.data[x][1], b.data[x][2]>> = k
             IN [typename |-> b.data[j][3], versioned |-> b.data[j][4] = 1]]]

\* a datastore without a dataset
DatastoreInit == dag = <<>> /\ versioned = EmptyMap

\* datastore.Init(dir, true) and then Open(dir): the open service of a new
\* datastore, whose directory holds the configuration without a dataset
ServiceInit ==
    /\ service = "open"
    /\ instances = EmptyMap
    /\ metadata = [buffer |-> <<>>, disk |-> EncodeDatasets(dag, EmptyMap)]

\* the labelsz data instances of the repository
LabelszNames == {"labelsz1", "labelsz2"}

\* labelsz data instances that have not been synced
SyncInit == syncedData = [d \in LabelszNames |-> {}]

\* no goroutine holds the mutex
NoHolder == "none"

\* a nil *roi.Immutable
NilROI == {"nil"}

\* the goroutines that deliver annotation events to the instance
Handlers == {"h1", "h2"}

IdleHandler ==
    [pc |-> "idle", event |-> NoEvent, pos |-> "", result |-> FALSE]

\* a new data instance: zero iMutex, nil iROI, roiChecked false
RoiIdle ==
    /\ iMutex = NoHolder
    /\ iROI = NilROI
    /\ roiChecked = FALSE
    /\ handlers = [g \in Handlers |-> IdleHandler]
    /\ nLoads = 0
    /\ nEvents = 0

\* a data instance without a static ROI
RoiInit == staticROI = "" /\ RoiIdle

\* var manager managerT
ManagerInit ==
    /\ setup = FALSE
    /\ defaultKV = NilStore
    /\ defaultLog = NilStore
    /\ metadataStore = NilStore
    /\ stores = EmptyMap
    /\ instanceStore = EmptyMap
    /\ datatypeStore = EmptyMap
    /\ instanceLog = EmptyMap
    /\ datatypeLog = EmptyMap
    /\ graphDB = NilStore
    /\ gcache = {}
    /\ call = IdleCall
    /\ initRet = NoInitRet
    /\ ret = NoRet

Init ==
    /\ ManagerInit
    /\ FilelogInit
    /\ LogInit
    /\ RoiInit
    /\ SyncInit
    /\ DatastoreInit
    /\ ServiceInit
    /\ LabelszInit

\* manager = managerT{}: no Initialize since the process started or since the
\* last Close
ManagerClosed ==
    /\ ~setup
    /\ defaultKV = NilStore
    /\ defaultLog = NilStore
    /\ metadataStore = NilStore
    /\ stores = EmptyMap
    /\ instanceStore = EmptyMap
    /\ datatypeStore = EmptyMap
    /\ instanceLog = EmptyMap
    /\ datatypeLog = EmptyMap
    /\ graphDB = NilStore
    /\ gcache = {}
    /\ ~initRet.called

InitializeSteps ==
    \/ \E alias \in call.todo : InitializeOpenStore(alias)
    \/ InitializeDefaults
    \/ \E dataspec \in call.todo : InitializeKVStore(dataspec)
    \/ InitializeLogMaps
    \/ \E dataspec \in call.todo : InitializeLogStore(dataspec)
    \/ InitializeSetup
    \/ InitializeGraph

Next ==
    \/ ManagerClosed /\
         \/ \E backend \in StartupBackends, disk \in StartupDisks :
               InitializeBegin(backend, disk)
         \/ \E backend \in KVBackends \cup LogBackends :
               InitializeBegin(backend, {})
    \/ InitializeSteps
    \/ Close
    \/ Lookups

Spec == Init /\ [][Next]_vars


(* Specification: Initialize may also be called on a manager that has not  *)
(* been closed                                                             *)

NextReinit ==
    \/ \E backend \in ReinitBackends : InitializeBegin(backend, {})
    \/ InitializeSteps
    \/ Close
    \/ Lookups

SpecReinit == Init /\ [][NextReinit]_vars

----------------------------------------------------------------------------
(* What a configuration asks for, read off the configuration alone *)

\* the directory a store configuration denotes
ResolvedPath(config) ==
    IF config.testing THEN <<"tmp">> \o config.path ELSE config.path

\* the store that opening a (valid) configuration yields
OpenedFrom(config) == [engine |-> config.engine, path |-> ResolvedPath(config)]

\* the backend of the Initialize call in progress, else of the completed one
CurrentBackend == IF call.pc = "idle" THEN initRet.backend ELSE call.backend

HasBackend == call.pc # "idle" \/ initRet.called

InitializeSucceeded ==
    call.pc = "idle" /\ initRet.called /\ initRet.err = NoErr

\* aliases that an assignment map gives to data instance (n, r) / datatype t
InstanceAliases(m, n, r) ==
    {m[ds] : ds \in {d \in DOMAIN m : d.parts = <<n, r>>}}

DatatypeAliases(m, t) ==
    {m[ds] : ds \in {d \in DOMAIN m : d.parts = <<t>>}}

\* the alias of the default key-value store
DefaultAlias(backend) ==
    IF backend.DefaultKVDB \in DOMAIN backend.Stores
        THEN backend.DefaultKVDB
        ELSE CHOOSE a \in DOMAIN backend.Stores : TRUE

ExpectedStore(backend, n, r, t) ==
    LET byInst == InstanceAliases(backend.KVStore, n, r)
        byType == DatatypeAliases(backend.KVStore, t)
        alias  == IF byInst # {} THEN CHOOSE a \in byInst : TRUE
                  ELSE IF byType # {} THEN CHOOSE a \in byType : TRUE
                  ELSE DefaultAlias(backend)
    IN  OpenedFrom(backend.Stores[alias])

ExpectedLog(backend, n, r, t) ==
    LET byInst == InstanceAliases(backend.LogStore, n, r)
        byType == DatatypeAliases(backend.LogStore, t)
    IN  IF byInst # {}
            THEN OpenedFrom(backend.Stores[CHOOSE a \in byInst : TRUE])
        ELSE IF byType # {}
            THEN OpenedFrom(backend.Stores[CHOOSE a \in byType : TRUE])
        ELSE IF backend.DefaultLog \in DOMAIN backend.Stores
            THEN OpenedFrom(backend.Stores[backend.DefaultLog])
        ELSE NilStore

----------------------------------------------------------------------------
(* Claims *)

\* C1: after a successful Initialize, GetAssignedStore(n, r, t) returns
\* without error the store the configuration assigns to instance (n, r) if
\* it assigns one, else the store it assigns to datatype t if it assigns
\* one, else the default key-value store.
C1_AssignedStoreResolution ==
    (InitializeSucceeded /\ ret.op = "GetAssignedStore") =>
        /\ ret.val.err = NoErr
        /\ ret.val.store = ExpectedStore(initRet.backend, ret.args[1],
                                         ret.args[2], ret.args[3])

\* C1 witness: the instance and its datatype are assigned different stores
\* and the lookup returned the instance's.
C1_Witness ==
    /\ InitializeSucceeded
    /\ ret.op = "GetAssignedStore"
    /\ ret.args = <<"n1", "r1", "t1">>
    /\ InstanceAliases(initRet.backend.KVStore, "n1", "r1") = {"b"}
    /\ DatatypeAliases(initRet.backend.KVStore, "t1") = {"a"}
    /\ ret.val.store = OpenedFrom(KvY)

\* C2: once the manager is set up, GetAssignedLog(n, r, t) returns without
\* error the log the configuration assigns to instance (n, r), else the log
\* it assigns to datatype t, else the default log, whatever stores are
\* assigned to them; when there is none of the three it returns a nil log
\* and no error, while DefaultLogStore returns an error.
C2_AssignedLogResolution ==
    (setup /\ ret.op = "GetAssignedLog") =>
        LET expected == ExpectedLog(CurrentBackend, ret.args[1], ret.args[2],
                                    ret.args[3])
        IN  /\ ret.val.err = NoErr
            /\ ret.val.store = expected
            /\ expected = NilStore => DefaultLogStore.err # NoErr

\* C2 witness: no instance, datatype or default log is configured although
\* stores are assigned, and the lookup returned nil without an error.
C2_Witness ==
    /\ InitializeSucceeded
    /\ ret.op = "GetAssignedLog"
    /\ initRet.backend.LogStore = EmptyMap
    /\ initRet.backend.DefaultLog = NoAlias
    /\ initRet.backend.KVStore # EmptyMap
    /\ ret.val = Result(NilStore, NoErr)
    /\ DefaultLogStore.err # NoErr

\* C3: while setup is false every lookup and DeleteDataInstance returns an
\* error and no store.
C3_NotSetupRejects ==
    ~setup =>
        /\ AllStores.err # NoErr /\ AllStores.stores = EmptyMap
        /\ \A res \in {DefaultKVStore, DefaultLogStore, MetaDataKVStore,
                       DefaultKVDB, DefaultOrderedKVDB, GraphStore} :
              res.err # NoErr /\ res.store = NilStore
        /\ \A alias \in {"a", "b", "c", Undefined} :
              /\ GetStoreByAlias(alias).err # NoErr
              /\ GetStoreByAlias(alias).store = NilStore
        /\ \A n \in InstanceNames, r \in Roots, t \in TypeStrings :
              \A res \in {GetAssignedStore(n, r, t), GetAssignedLog(n, r, t),
                          DeleteDataInstance(n, r, t)} :
                  res.err # NoErr /\ res.store = NilStore
        /\ ret.op \notin {"none", "Close"} => ret.val.err # NoErr

\* C3 witness: a store is already in the manager, setup is still false and
\* GetStoreByAlias for it was refused.
C3_Witness ==
    /\ ~setup
    /\ "a" \in DOMAIN stores
    /\ ret.op = "GetStoreByAlias"
    /\ ret.args = <<"a">>
    /\ ret.val.err # NoErr

\* two aliases whose configurations denote the same store
HasDuplicates(backend) ==
    \E a, b \in DOMAIN backend.Stores :
        /\ a # b
        /\ backend.Stores[a].hasPath
        /\ backend.Stores[b].hasPath
        /\ ResolvedPath(backend.Stores[a]) = ResolvedPath(backend.Stores[b])

\* C4: when two aliases of the configuration have equal configurations,
\* Initialize does not get past opening the stores and returns an error, in
\* whichever order the aliases are processed.
C4_DuplicateRejected ==
    (HasBackend /\ HasDuplicates(CurrentBackend)) =>
        /\ call.pc \in {"idle", "stores"}
        /\ ~setup
        /\ initRet.called => initRet.err # NoErr

\* C4 witness: two configurations that differ as written (one is relative
\* to the temporary directory) were found to be duplicates.
C4_Witness ==
    /\ initRet.called
    /\ initRet.err = "configuration is duplicate"
    /\ \E a, b \in DOMAIN initRet.backend.Stores :
          /\ initRet.backend.Stores[a] = LogTmpX
          /\ initRet.backend.Stores[b] = LogXTesting

\* C5: when no configured alias is the backend default, Initialize succeeds
\* only with exactly one store and that store is the default key-value
\* store; with no store or with several it returns an error.
C5_SingleStoreDefault ==
    (HasBackend /\ CurrentBackend.DefaultKVDB \notin DOMAIN CurrentBackend.Stores) =>
        LET backend == CurrentBackend
            n       == Cardinality(DOMAIN backend.Stores)
        IN  /\ n # 1 => /\ call.pc \in {"idle", "stores"}
                        /\ initRet.called => initRet.err # NoErr
            /\ InitializeSucceeded =>
                  /\ n = 1
                  /\ \A a \in DOMAIN backend.Stores :
                        defaultKV = OpenedFrom(backend.Stores[a])

\* C5 witness: the default alias names no configured store, there is one
\* store, and Initialize succeeded.
C5_Witness ==
    /\ InitializeSucceeded
    /\ initRet.backend.DefaultKVDB = Undefined
    /\ Cardinality(DOMAIN initRet.backend.Stores) = 1
    /\ DefaultKVStore.store = OpenedFrom(KvX)

\* the default log alias or a log assignment names a configured store that
\* is not a write log
NamesNonLog(backend) ==
    \/ /\ backend.DefaultLog \in DOMAIN backend.Stores
       /\ backend.Stores[backend.DefaultLog].engine # "filelog"
    \/ \E ds \in DOMAIN backend.LogStore :
          /\ ds # SpecDefault
          /\ backend.LogStore[ds] \in DOMAIN backend.Stores
          /\ backend.Stores[backend.LogStore[ds]].engine # "filelog"

\* C6: when the default log alias or a per-datatype or per-instance log
\* assignment names a store without the WriteLog capability, Initialize
\* returns an error and never sets the manager up; and DefaultLogStore and
\* GetAssignedLog never return a store without that capability.
C6_LogCapability ==
    /\ (HasBackend /\ NamesNonLog(CurrentBackend)) =>
          /\ call.pc # "graph"
          /\ ~setup
          /\ initRet.called => initRet.err # NoErr
    /\ DefaultLogStore.store # NilStore
          => DefaultLogStore.store.engine = "filelog"
    /\ \A n \in InstanceNames, r \in Roots, t \in TypeStrings :
          GetAssignedLog(n, r, t).store # NilStore
              => GetAssignedLog(n, r, t).store.engine = "filelog"

\* C6 witness: a log assignment named a key-value store and Initialize
\* returned the capability error.
C6_Witness ==
    /\ initRet.called
    /\ initRet.err = "not a valid write log"
    /\ \E ds \in DOMAIN initRet.backend.LogStore :
          initRet.backend.Stores[initRet.backend.LogStore[ds]] = KvX

\* the configuration refers to an alias that is not a configured store
RefersToUndefined(backend) ==
    \/ backend.DefaultKVDB # NoAlias
          /\ backend.DefaultKVDB \notin DOMAIN backend.Stores
    \/ backend.Metadata # NoAlias
          /\ backend.Metadata \notin DOMAIN backend.Stores
    \/ backend.DefaultLog # NoAlias
          /\ backend.DefaultLog \notin DOMAIN backend.Stores
    \/ \E ds \in DOMAIN backend.KVStore \ {SpecDefault, SpecMetadata} :
          backend.KVStore[ds] \notin DOMAIN backend.Stores
    \/ \E ds \in DOMAIN backend.LogStore \ {SpecDefault} :
          backend.LogStore[ds] \notin DOMAIN backend.Stores

\* C7: Initialize returns an error whenever the configuration refers to an
\* alias that is not among the configured stores, be it as default store,
\* metadata store, default log or in a store or log assignment.
C7_UndefinedAliasRejected ==
    (initRet.called /\ RefersToUndefined(initRet.backend)) =>
        initRet.err # NoErr

\* the configuration of the store that serves as metadata store
MetadataConfig(backend) ==
    IF backend.Metadata \in DOMAIN backend.Stores
        THEN backend.Stores[backend.Metadata]
        ELSE backend.Stores[DefaultAlias(backend)]

\* C8: a successful Initialize returns true exactly when the directory of
\* the store serving as metadata store (that of the metadata alias, else
\* the default key-value store) did not exist before the call, that is,
\* when this call created the store.
C8_CreatedMetadata ==
    InitializeSucceeded =>
        LET config == MetadataConfig(initRet.backend) IN
        /\ metadataStore = OpenedFrom(config)
        /\ initRet.createdMetadata = (ResolvedPath(config) \notin initRet.disk)

\* C8 witness: the metadata store existed, the default store was created,
\* and Initialize returned false.
C8_Witness ==
    /\ InitializeSucceeded
    /\ initRet.backend.Metadata = "b"
    /\ metadataStore # defaultKV
    /\ metadataStore.path \in initRet.disk
    /\ defaultKV.path \notin initRet.disk
    /\ ~initRet.createdMetadata

\* C9: an Initialize call that starts while the manager is set up leaves
\* every field of the manager as the earlier Initialize established it.
C9_InitializedOnce ==
    [][(setup /\ call.pc = "idle" /\ call'.pc # "idle")
          => managerVars' = managerVars]_vars

\* C10: a GraphStore call that finds setup true, also one that runs while
\* Initialize is running, returns the graph store or an error, never a nil
\* graph store without an error.
C10_GraphStoreReady ==
    ret.op = "GraphStore" =>
        ~(ret.val.err = NoErr /\ ret.val.store = NilStore)

----------------------------------------------------------------------------
(* The write logs of a filelog store: Append, Close and opening the store  *)
(* again.  Append is modelled statement by statement, so that the calls of *)
(* several goroutines interleave as the scheduler allows.                  *)

\* binary.LittleEndian.PutUint16 and PutUint32
PutUint16(v) == <<v % 256, (v \div 256) % 256>>

PutUint32(v) ==
    <<v % 256, (v \div 256) % 256, (v \div 65536) % 256,
      (v \div 16777216) % 256>>

\* binary.LittleEndian.Uint16 and Uint32
Uint16(b) == b[1] + 256 * b[2]

Uint32(b) == b[1] + 256 * b[2] + 65536 * b[3] + 16777216 * b[4]

\* the 6 bytes that writeHeader hands to f.Write.  uint32(len(data)) is
\* len(data) for every length below 2^32, which is above every length that a
\* sequence of this model can have.
writeHeader_BigEndian(entryType, data) ==
    <<(entryType \div 256) % 256, entryType % 256>> \o PutUint32(Len(data))

writeHeader(entryType, data) ==
    PutUint16(entryType) \o PutUint32(Len(data))

\* what readHeader returns for the 6 bytes it has read
readHeader(buf) ==
    [entryType |-> Uint16(SubSeq(buf, 1, 2)), size |-> Uint32(SubSeq(buf, 3, 6))]

\* k := string(dataID + "-" + version)
FileKey(dataID, version) == dataID \o <<"-">> \o version

\* os.OpenFile(filename, O_WRONLY|O_CREATE|O_APPEND|O_SYNC): the contents of
\* the file once it is open
OpenFile_Truncating(dir, k) == <<>>

OpenFile(dir, k) == IF k \in DOMAIN dir THEN dir[k] ELSE <<>>

\* one write(2) on a file opened with O_APPEND
WriteAtEnd(dir, k, id, kind, bytes) ==
    [dir EXCEPT ![k] = Append(@, [id |-> id, kind |-> kind, bytes |-> bytes])]

\* the (data instance, version) pairs that Append is called with
LogPairs == {<<<<"a">>, <<"1">>>>, <<<<"a">>, <<"2">>>>}

\* the (entry type, payload) pairs that Append is called with
LogEntries == {<<1, <<>> >>, <<258, <<7>> >>}

\* the number of Append calls in one behaviour
MaxAppends == 2

\* entry into Append
AppendBegin(g, entryType, dataID, version, p) ==
    /\ ~fatal
    /\ appends[g].pc = "idle"
    /\ nAppends < MaxAppends
    /\ appends' = [appends EXCEPT ![g] =
                     [pc |-> "getLogFile", name |-> FileKey(dataID, version),
                      entryType |-> entryType, p |-> p, fl |-> NoFlog,
                      id |-> nAppends + 1]]
    /\ nAppends' = nAppends + 1
    /\ overlap' = (overlap \/ \E h \in Goroutines : appends[h].pc # "idle")
    /\ UNCHANGED <<files, flogs, fs, closer, fatal, history>>
    /\ UNCHANGED outsideFilelog

\* getLogFile: fl, found = wlogs.files[k]
GetLogFileLookup(g) ==
    /\ ~fatal
    /\ appends[g].pc = "getLogFile"
    /\ LET k == appends[g].name IN
       appends' = IF k \in DOMAIN files
                     THEN [appends EXCEPT ![g].fl = files[k], ![g].pc = "Lock"]
                     ELSE [appends EXCEPT ![g].pc = "OpenFile"]
    /\ UNCHANGED <<files, flogs, fs, closer, fatal, history, nAppends, overlap>>
    /\ UNCHANGED outsideFilelog

\* getLogFile, not found: os.OpenFile, fl = &flog{File: f}, wlogs.files[k] = fl.
\* A Close that is ranging over wlogs.files may or may not come to see the
\* new entry.
GetLogFileOpen(g, opens) ==
    /\ ~fatal
    /\ appends[g].pc = "OpenFile"
    /\ LET k  == appends[g].name
           fl == Len(flogs) + 1
       IN
       IF ~opens
       THEN /\ appends' = [appends EXCEPT ![g] = IdleAppend]
            /\ UNCHANGED <<files, flogs, fs, closer>>
       ELSE /\ fs' = MapSet(fs, k, OpenFile(fs, k))
            /\ flogs' = Append(flogs, [name |-> k, closed |-> FALSE,
                                       holder |-> "none"])
            /\ files' = MapSet(files, k, fl)
            /\ appends' = [appends EXCEPT ![g].fl = fl, ![g].pc = "Lock"]
            /\ \/ UNCHANGED closer
               \/ /\ closer.pc = "closing"
                  /\ closer' = [closer EXCEPT !.todo = @ \cup {fl}]
    /\ UNCHANGED <<fatal, history, nAppends, overlap>>
    /\ UNCHANGED outsideFilelog

\* wlogs.files is read and written without a lock: when a goroutine is about
\* to write the map while another one reads, writes or ranges over it, the
\* runtime may stop the process ("concurrent map writes").
GetLogFileFatal(g) ==
    /\ ~fatal
    /\ appends[g].pc = "OpenFile"
    /\ \/ \E h \in Goroutines \ {g} :
             appends[h].pc \in {"getLogFile", "OpenFile"}
       \/ closer.pc = "closing"
    /\ fatal' = TRUE
    /\ UNCHANGED <<files, flogs, fs, appends, closer, history, nAppends,
                   overlap>>
    /\ UNCHANGED outsideFilelog

\* fl.Lock()
AppendLock(g) ==
    /\ ~fatal
    /\ appends[g].pc = "Lock"
    /\ flogs[appends[g].fl].holder = "none"
    /\ flogs' = [flogs EXCEPT ![appends[g].fl].holder = g]
    /\ appends' = [appends EXCEPT ![g].pc = "writeHeader"]
    /\ UNCHANGED <<files, fs, closer, fatal, history, nAppends, overlap>>
    /\ UNCHANGED outsideFilelog

\* fl.writeHeader(entryType, p); writing to a file that was closed fails, and
\* Append unlocks and returns the error
AppendWriteHeader(g) ==
    /\ ~fatal
    /\ appends[g].pc = "writeHeader"
    /\ LET a == appends[g] IN
       IF flogs[a.fl].closed
       THEN /\ flogs' = [flogs EXCEPT ![a.fl].holder = "none"]
            /\ appends' = [appends EXCEPT ![g] = IdleAppend]
            /\ UNCHANGED fs
       ELSE /\ fs' = WriteAtEnd(fs, a.name, a.id, "header",
                                writeHeader(a.entryType, a.p))
            /\ appends' = [appends EXCEPT ![g].pc = "Write"]
            /\ UNCHANGED flogs
    /\ UNCHANGED <<files, closer, fatal, history, nAppends, overlap>>
    /\ UNCHANGED outsideFilelog

\* fl.Write(p); fl.Unlock(); return nil
AppendWrite(g) ==
    /\ ~fatal
    /\ appends[g].pc = "Write"
    /\ LET a == appends[g] IN
       /\ fs' = WriteAtEnd(fs, a.name, a.id, "payload", a.p)
       /\ flogs' = [flogs EXCEPT ![a.fl].holder = "none"]
       /\ history' = MapSet(history, a.name,
                       Append(IF a.name \in DOMAIN history
                                  THEN history[a.name] ELSE <<>>,
                              [entryType |-> a.entryType, p |-> a.p]))
    /\ appends' = [appends EXCEPT ![g] = IdleAppend]
    /\ UNCHANGED <<files, closer, fatal, nAppends, overlap>>
    /\ UNCHANGED outsideFilelog

\* entry into Close: `for _, flog := range wlogs.files`
CloseBegin ==
    /\ ~fatal
    /\ closer.pc = "idle"
    /\ files # EmptyMap
    /\ closer' = [pc |-> "closing", todo |-> {files[k] : k \in DOMAIN files}]
    /\ UNCHANGED <<files, flogs, fs, appends, fatal, history, nAppends,
                   overlap>>
    /\ UNCHANGED outsideFilelog

\* one iteration of the loop: flog.Lock(); flog.Close(); flog.Unlock().  Close
\* returns after the last iteration.
CloseFlog(fl) ==
    /\ ~fatal
    /\ closer.pc = "closing"
    /\ fl \in closer.todo
    /\ flogs[fl].holder = "none"
    /\ flogs' = [flogs EXCEPT ![fl].closed = TRUE]
    /\ closer' = IF closer.todo = {fl}
                     THEN IdleCloser
                     ELSE [closer EXCEPT !.todo = @ \ {fl}]
    /\ UNCHANGED <<files, fs, appends, fatal, history, nAppends, overlap>>
    /\ UNCHANGED outsideFilelog

\* newWriteLogs for the same path once more: a new writeLogs with
\* files: make(map[string]*flog) takes the place of the old one
Reopen ==
    /\ ~fatal
    /\ closer.pc = "idle"
    /\ \A g \in Goroutines : appends[g].pc = "idle"
    /\ files # EmptyMap
    /\ files' = EmptyMap
    /\ UNCHANGED <<flogs, fs, appends, closer, fatal, history, nAppends,
                   overlap>>
    /\ UNCHANGED outsideFilelog

NextFilelog ==
    \/ \E g \in Goroutines, entry \in LogEntries, pair \in LogPairs :
          AppendBegin(g, entry[1], pair[1], pair[2], entry[2])
    \/ \E g \in Goroutines : GetLogFileLookup(g)
    \/ \E g \in Goroutines, opens \in BOOLEAN : GetLogFileOpen(g, opens)
    \/ \E g \in Goroutines : GetLogFileFatal(g)
    \/ \E g \in Goroutines : AppendLock(g)
    \/ \E g \in Goroutines : AppendWriteHeader(g)
    \/ \E g \in Goroutines : AppendWrite(g)
    \/ CloseBegin
    \/ \E fl \in closer.todo : CloseFlog(fl)
    \/ Reopen

SpecFilelog == Init /\ [][NextFilelog]_vars

----------------------------------------------------------------------------
(* Claims about the write logs *)

RECURSIVE FileBytes(_)
\* the bytes of a file, given the writes that made it
FileBytes(writes) ==
    IF writes = <<>> THEN <<>>
    ELSE Head(writes).bytes \o FileBytes(Tail(writes))

RECURSIVE ReadRecords(_)
\* reading a file back: readHeader on 6 bytes, then `size` bytes of payload,
\* until the file ends; a file that ends inside a record ends in "short"
ReadRecords(bytes) ==
    IF bytes = <<>> THEN <<>>
    ELSE IF Len(bytes) < 6 THEN <<"short">>
    ELSE LET header == readHeader(SubSeq(bytes, 1, 6)) IN
         IF Len(bytes) < 6 + header.size THEN <<"short">>
         ELSE <<[entryType |-> header.entryType,
                 p |-> SubSeq(bytes, 7, 6 + header.size)]>>
                  \o ReadRecords(SubSeq(bytes, 7 + header.size, Len(bytes)))

\* the records that the Append calls which returned nil gave for file k
Appended(k) == IF k \in DOMAIN history THEN history[k] ELSE <<>>

NoAppendInProgress == \A g \in Goroutines : appends[g].pc = "idle"

IsPrefix(s, t) == Len(s) <= Len(t) /\ SubSeq(t, 1, Len(s)) = s

\* C11: in every log file, whatever the interleaving of the Append calls,
\* each header is directly followed by the payload of the same Append call
\* (once that payload is written): no write of another call lies between.
C11_HeaderThenOwnPayload ==
    \A k \in DOMAIN fs : \A i \in 1..Len(fs[k]) :
        (fs[k][i].kind = "header" /\ i < Len(fs[k])) =>
            /\ fs[k][i + 1].kind = "payload"
            /\ fs[k][i + 1].id = fs[k][i].id

\* C12: after Append calls made one after the other, reading back the file
\* of a (data instance, version) pair yields exactly the records of the calls
\* for that pair which returned nil, in the order of the calls, each with its
\* entry type and its payload; calls for another pair leave the file alone.
C12_ReadBack ==
    (~overlap /\ NoAppendInProgress) =>
        \A k \in DOMAIN fs : ReadRecords(FileBytes(fs[k])) = Appended(k)

C12_Witness ==
    /\ ~overlap
    /\ NoAppendInProgress
    /\ \E k1 \in DOMAIN history, k2 \in DOMAIN history :
          /\ k1 # k2
          /\ history[k1] = <<[entryType |-> 258, p |-> <<7>>]>>
          /\ Len(history[k2]) = 1
          /\ ReadRecords(FileBytes(fs[k1])) = history[k1]

\* C13: no step of Append, Close or opening the store again removes a log
\* file or changes the bytes it already holds: the old contents are a prefix
\* of the new contents.
C13_FilesOnlyGrow ==
    [][\A k \in DOMAIN fs :
          /\ k \in DOMAIN fs'
          /\ IsPrefix(FileBytes(fs[k]), FileBytes(fs'[k]))]_vars

\* a file that was written, closed, opened again by a new store and written
C13_Witness ==
    \E k \in DOMAIN history :
        /\ Len(history[k]) = 2
        /\ Len(flogs) = 2
        /\ flogs[1].name = k /\ flogs[1].closed
        /\ flogs[2].name = k
        /\ ReadRecords(FileBytes(fs[k])) = history[k]

----------------------------------------------------------------------------
(* Equal of the write logs, applied to pairs of store configurations *)

\* configurations with and without a path, with and without "testing", of
\* two engines
EqualConfigs ==
    {StoreConfig(e, TRUE, p, t) :
        e \in {"filelog", "basholeveldb"},
        p \in {<<"x">>, <<"y">>, <<"tmp", "x">>},
        t \in BOOLEAN}
    \cup
    {StoreConfig(e, FALSE, <<>>, t) :
        e \in {"filelog", "basholeveldb"}, t \in BOOLEAN}

\* The store A opened from configuration a is asked A.Equal(a) and A.Equal(b);
\* when b opens a store B as well, B is asked B.Equal(a).
CallEqual(a, b) ==
    LET A == NewStore(a, FALSE)
        B == NewStore(b, FALSE)
    IN
    /\ A.err = NoErr
    /\ Returns("Equal", <<a, b>>,
               [own      |-> Equal(A.store, a),
                other    |-> Equal(A.store, b),
                opens    |-> B.err = NoErr,
                reversed |-> B.err = NoErr /\ Equal(B.store, a)])

NextEqual == \E a \in EqualConfigs, b \in EqualConfigs : CallEqual(a, b)

SpecEqual == Init /\ [][NextEqual]_vars

----------------------------------------------------------------------------
(* The log message queue of package dvid: logging calls send to the        *)
(* buffered channel logCh, one goroutine receives and writes, Shutdown     *)
(* waits for an empty channel and closes it.                               *)

\* the capacity of logCh.  const maxPendingLogMessages = 10000 in the source;
\* the channel of the model is short enough to be filled.
maxPendingLogMessages == 2

\* the number of logging calls, in one behaviour, that go on to send
MaxMessages == maxPendingLogMessages + 1

PackageFns == {"Debugf", "Infof", "Warningf", "Errorf", "Criticalf"}

TimeLogFns ==
    {"TimeLog.Debugf", "TimeLog.Infof", "TimeLog.Warningf", "TimeLog.Errorf",
     "TimeLog.Criticalf"}

\* the mode that a logging function compares `mode` with
Threshold(fn) ==
    CASE fn \in {"Debugf", "TimeLog.Debugf"}       -> DebugMode
      [] fn \in {"Infof", "TimeLog.Infof"}         -> InfoMode
      [] fn \in {"Warningf", "TimeLog.Warningf"}   -> WarningMode
      [] fn \in {"Errorf", "TimeLog.Errorf"}       -> ErrorMode
      [] fn \in {"Criticalf", "TimeLog.Criticalf"} -> CriticalMode

\* the f of the logMessage that a logging function makes
LoggerFn(fn) ==
    CASE fn \in {"Debugf", "TimeLog.Debugf"}       -> "logger.Debugf"
      [] fn \in {"Infof", "TimeLog.Infof"}         -> "logger.Infof"
      [] fn \in {"Warningf", "TimeLog.Warningf"}   -> "logger.Warningf"
      [] fn \in {"Errorf", "TimeLog.Errorf"}       -> "logger.Errorf"
      [] fn \in {"Criticalf", "TimeLog.Criticalf"} -> "logger.Criticalf"

\* `if mode <= XMode`
Passes_Strict(fn, m) == m < Threshold(fn)

Passes(fn, m) == m <= Threshold(fn)

\* a send on the buffered channel can proceed
CanSend_Always(ch) == TRUE

CanSend(ch) == Len(ch) < maxPendingLogMessages

\* a receive from the buffered channel: the message received and the
\* messages that stay
Receive_Newest(ch) ==
    [msg |-> ch[Len(ch)], rest |-> SubSeq(ch, 1, Len(ch) - 1)]

Receive(ch) == [msg |-> Head(ch), rest |-> Tail(ch)]

SetLogMode(newMode) ==
    /\ mode' = newMode
    /\ UNCHANGED <<logCh, logChClosed, consumer, written, callers, shutdown,
                   nIssued, nAccepted>>
    /\ UNCHANGED <<outsideLog, ret>>

\* Debugf ... Criticalf and their TimeLog variants, up to the send: the test
\* of mode and the making of the message
LogCall(c, fn) ==
    /\ callers[c].pc = "idle"
    /\ nIssued < MaxMessages
    /\ IF Passes(fn, mode)
       THEN /\ callers' = [callers EXCEPT ![c] =
                             [pc  |-> "send",
                              msg |-> [id |-> 0, f |-> LoggerFn(fn)]]]
            /\ nIssued' = nIssued + 1
       ELSE UNCHANGED <<callers, nIssued>>
    /\ ret' = [op |-> fn, args |-> <<mode>>, val |-> Passes(fn, mode)]
    /\ UNCHANGED <<mode, logCh, logChClosed, consumer, written, shutdown,
                   nAccepted>>
    /\ UNCHANGED outsideLog

\* `logCh <- logMessage{...}` and the return: the send waits while the
\* channel is full and panics once the channel is closed
LogSend(c) ==
    /\ callers[c].pc = "send"
    /\ IF logChClosed
       THEN /\ callers' = [callers EXCEPT ![c].pc = "panicked"]
            /\ UNCHANGED <<logCh, nAccepted>>
       ELSE /\ CanSend(logCh)
            /\ logCh' = Append(logCh,
                          [callers[c].msg EXCEPT !.id = nAccepted + 1])
            /\ nAccepted' = nAccepted + 1
            /\ callers' = [callers EXCEPT ![c] = IdleCaller]
    /\ UNCHANGED <<mode, logChClosed, consumer, written, shutdown, nIssued>>
    /\ UNCHANGED <<outsideLog, ret>>

\* `for msg := range logCh`: the next message is received
ConsumerReceive ==
    /\ consumer.pc = "range"
    /\ logCh # <<>>
    /\ consumer' = [pc |-> "f", msg |-> Receive(logCh).msg]
    /\ logCh' = Receive(logCh).rest
    /\ UNCHANGED <<mode, logChClosed, written, callers, shutdown, nIssued,
                   nAccepted>>
    /\ UNCHANGED <<outsideLog, ret>>

\* `for msg := range logCh`: the channel is closed and empty
ConsumerExit ==
    /\ consumer.pc = "range"
    /\ logCh = <<>>
    /\ logChClosed
    /\ consumer' = [pc |-> "exit", msg |-> NoMessage]
    /\ UNCHANGED <<mode, logCh, logChClosed, written, callers, shutdown,
                   nIssued, nAccepted>>
    /\ UNCHANGED <<outsideLog, ret>>

\* msg.f(msg.msg)
ConsumerWrite ==
    /\ consumer.pc = "f"
    /\ written' = Append(written, consumer.msg)
    /\ consumer' = [pc |-> "range", msg |-> NoMessage]
    /\ UNCHANGED <<mode, logCh, logChClosed, callers, shutdown, nIssued,
                   nAccepted>>
    /\ UNCHANGED <<outsideLog, ret>>

\* entry into Shutdown
ShutdownBegin ==
    /\ shutdown.pc = "idle"
    /\ shutdown' = [pc |-> "check", before |-> nAccepted]
    /\ UNCHANGED <<mode, logCh, logChClosed, consumer, written, callers,
                   nIssued, nAccepted>>
    /\ UNCHANGED <<outsideLog, ret>>

\* `if len(logCh) > 0 { Infof(...) ... } else { break }`
ShutdownCheck ==
    /\ shutdown.pc = "check"
    /\ IF Len(logCh) > 0
       THEN /\ nIssued < MaxMessages
            /\ shutdown' = [shutdown EXCEPT !.pc = "Infof"]
       ELSE shutdown' = [shutdown EXCEPT !.pc = "close"]
    /\ UNCHANGED <<mode, logCh, logChClosed, consumer, written, callers,
                   nIssued, nAccepted>>
    /\ UNCHANGED <<outsideLog, ret>>

\* Infof("Waiting for %d log messages to write...") up to the send; when the
\* mode filters the message out, time.Sleep and the next iteration follow
ShutdownInfof ==
    /\ shutdown.pc = "Infof"
    /\ IF Passes("Infof", mode)
       THEN /\ shutdown' = [shutdown EXCEPT !.pc = "send"]
            /\ nIssued' = nIssued + 1
       ELSE /\ shutdown' = [shutdown EXCEPT !.pc = "check"]
            /\ UNCHANGED nIssued
    /\ UNCHANGED <<mode, logCh, logChClosed, consumer, written, callers,
                   nAccepted>>
    /\ UNCHANGED <<outsideLog, ret>>

\* the send of that Infof, time.Sleep and the next iteration
ShutdownSend ==
    /\ shutdown.pc = "send"
    /\ CanSend(logCh)
    /\ logCh' = Append(logCh, [id |-> nAccepted + 1, f |-> LoggerFn("Infof")])
    /\ nAccepted' = nAccepted + 1
    /\ shutdown' = [shutdown EXCEPT !.pc = "check"]
    /\ UNCHANGED <<mode, logChClosed, consumer, written, callers, nIssued>>
    /\ UNCHANGED <<outsideLog, ret>>

\* close(logCh)
ShutdownClose ==
    /\ shutdown.pc = "close"
    /\ logChClosed' = TRUE
    /\ shutdown' = [shutdown EXCEPT !.pc = "logger"]
    /\ UNCHANGED <<mode, logCh, consumer, written, callers, nIssued,
                   nAccepted>>
    /\ UNCHANGED <<outsideLog, ret>>

\* logger.Infof("Logging system shutdown."), logger.Shutdown() and the return
ShutdownReturn ==
    /\ shutdown.pc = "logger"
    /\ shutdown' = [shutdown EXCEPT !.pc = "done"]
    /\ UNCHANGED <<mode, logCh, logChClosed, consumer, written, callers,
                   nIssued, nAccepted>>
    /\ UNCHANGED <<outsideLog, ret>>

ConsumerSteps ==
    \/ ConsumerReceive
    \/ ConsumerExit
    \/ ConsumerWrite

\* Two goroutines log at two severities while the mode changes between two
\* values and Shutdown is called.
NextLog ==
    \/ \E newMode \in {InfoMode, WarningMode} : SetLogMode(newMode)
    \/ \E c \in Callers, fn \in {"Infof", "TimeLog.Warningf"} : LogCall(c, fn)
    \/ \E c \in Callers : LogSend(c)
    \/ ConsumerSteps
    \/ ShutdownBegin
    \/ ShutdownCheck
    \/ ShutdownInfof
    \/ ShutdownSend
    \/ ShutdownClose
    \/ ShutdownReturn

SpecLog == Init /\ [][NextLog]_vars

\* the scheduler lets the consumer goroutine run
SpecLogFair ==
    /\ Init
    /\ [][NextLog]_vars
    /\ WF_vars(ConsumerReceive)
    /\ WF_vars(ConsumerExit)
    /\ WF_vars(ConsumerWrite)

\* One goroutine calls every logging function under every mode.
NextLogMode ==
    \/ \E newMode \in DebugMode..SilentMode : SetLogMode(newMode)
    \/ \E fn \in PackageFns \cup TimeLogFns : LogCall("c1", fn)
    \/ LogSend("c1")
    \/ ConsumerReceive
    \/ ConsumerWrite

SpecLogMode == Init /\ [][NextLogMode]_vars

----------------------------------------------------------------------------
(* Claims about the log message queue *)

\* the messages that went into logCh and have not been written
Pending ==
    (IF consumer.pc = "f" THEN <<consumer.msg>> ELSE <<>>) \o logCh

\* the logging calls that are at their send
Sending ==
    Cardinality({c \in Callers : callers[c].pc = "send"})
        + (IF shutdown.pc = "send" THEN 1 ELSE 0)

Panicked == {c \in Callers : callers[c].pc = "panicked"}

\* C15: logCh never holds more than maxPendingLogMessages messages; a
\* logging call whose send finds the channel full does not return before
\* there is room again; and no message is dropped: every call that went on
\* to send is still at its send, has panicked on the closed channel, or has
\* put a message into the channel, and every message put into the channel is
\* in the channel, with the consumer, or written.
C15_BoundedQueue ==
    /\ [](/\ Len(logCh) <= maxPendingLogMessages
          /\ nIssued = nAccepted + Sending + Cardinality(Panicked)
          /\ nAccepted = Len(written) + Len(Pending))
    /\ [][\A c \in Callers :
             (callers[c].pc = "send" /\ callers'[c].pc = "idle") =>
                 /\ Len(logCh) < maxPendingLogMessages
                 /\ logCh' = Append(logCh, [callers[c].msg EXCEPT
                                              !.id = nAccepted + 1])]_vars

\* a logging call waits at its send because the channel is full
C15_Witness ==
    /\ Len(logCh) = maxPendingLogMessages
    /\ ~logChClosed
    /\ \E c \in Callers : callers[c].pc = "send"

\* C16: the messages are written by the consumer in the order in which they
\* went into logCh, each one once (the i-th message written is the i-th
\* message accepted, and what is not yet written is with the consumer or in
\* the channel, in order), and every message accepted is written in the end.
C16_WrittenOnceInOrder ==
    /\ [](LET all == written \o Pending IN
          /\ Len(all) = nAccepted
          /\ \A i \in 1..Len(all) : all[i].id = i)
    /\ \A i \in 1..MaxMessages : (nAccepted >= i) ~> (Len(written) >= i)

\* two messages of different severities have been written
C16_Witness ==
    /\ Len(written) >= 2
    /\ written[1].f # written[2].f
    /\ logCh # <<>>

\* C17: when Shutdown has returned, every message that had gone into logCh
\* before Shutdown was called has been written by the consumer.
C17_ShutdownFlushes ==
    shutdown.pc = "done" => Len(written) >= shutdown.before

\* C18: once Shutdown has begun no message goes into logCh any more, and no
\* logging call made during or after Shutdown fails.
C18_ShutdownStopsAccepting ==
    /\ shutdown.pc # "idle" => nAccepted = shutdown.before
    /\ Panicked = {}

\* the severity of a logging function, Debug < Info < Warning < Error <
\* Critical, on the scale of the modes
Severity(fn) ==
    CASE fn \in {"Debugf", "TimeLog.Debugf"}       -> 0
      [] fn \in {"Infof", "TimeLog.Infof"}         -> 1
      [] fn \in {"Warningf", "TimeLog.Warningf"}   -> 2
      [] fn \in {"Errorf", "TimeLog.Errorf"}       -> 3
      [] fn \in {"Criticalf", "TimeLog.Criticalf"} -> 4

\* C19: a logging call goes on to send its message if and only if the mode
\* it finds is at or below its severity, for the package functions and the
\* TimeLog methods alike: under WarningMode exactly the Warningf, Errorf and
\* Criticalf calls do, under SilentMode none does; and each call that goes on
\* to send puts one message into logCh, the others none.
C19_ModeFilter ==
    /\ ret.op \in PackageFns \cup TimeLogFns =>
          LET m == ret.args[1] IN
          /\ ret.val <=> (m <= Severity(ret.op))
          /\ m = WarningMode =>
                (ret.val <=> ret.op \in {"Warningf", "Errorf", "Criticalf",
                                         "TimeLog.Warningf", "TimeLog.Errorf",
                                         "TimeLog.Criticalf"})
          /\ m = SilentMode => ~ret.val
    /\ nAccepted + Sending = nIssued

\* a TimeLog warning has been logged under WarningMode and written
C19_Witness ==
    /\ ret.op = "TimeLog.Warningf"
    /\ ret.args = <<WarningMode>>
    /\ ret.val
    /\ callers["c1"].pc = "idle"
    /\ \E i \in 1..Len(written) :
          written[i].id = nAccepted /\ written[i].f = "logger.Warningf"

----------------------------------------------------------------------------
(* The index of a labelsz data instance and its point lookup *)

\* a label (uint64) as 8 bytes, most significant byte first.  A uint64 is held
\* as the integer of -2^31 .. 2^31 - 1 that it is congruent to modulo 2^64
\* (the integers of the model checker have 32 bits), so that the labels of the
\* model are 0 .. 2^31 - 1 and 2^64 - 2^31 .. 2^64 - 1
PutUint64BE(label) ==
    LET fill == IF label < 0 THEN 255 ELSE 0 IN
    <<fill, fill, fill, fill, (label \div 16777216) % 256,
      (label \div 65536) % 256, (label \div 256) % 256, label % 256>>

\* NewTypeLabelTKey(i, label): the key of the count record of a label
NewTypeLabelTKey(i, label) == <<"R", i>> \o PutUint64BE(label)

\* store.Get: the value stored under a key, nil if there is none
Get(kv, k) ==
    IF k \in DOMAIN kv THEN [isNil |-> FALSE, val |-> kv[k]]
                       ELSE [isNil |-> TRUE, val |-> <<>>]

\* GetCountElementType without the test of the length of the value
GetCountElementType_AnyLength(kv, label, i, dbErr, getErr) ==
    IF dbErr # NoErr THEN [count |-> 0, err |-> dbErr]
    ELSE IF getErr # NoErr THEN [count |-> 0, err |-> getErr]
    ELSE LET got == Get(kv, NewTypeLabelTKey(i, label)) IN
         IF got.isNil \/ Len(got.val) < 4 THEN [count |-> 0, err |-> NoErr]
         ELSE [count |-> Uint32(SubSeq(got.val, 1, 4)), err |-> NoErr]

\* GetCountElementType.  dbErr is the error of d.GetOrderedKeyValueDB() and
\* getErr the error of store.Get, NoErr when they succeed.
GetCountElementType(kv, label, i, dbErr, getErr) ==
    IF dbErr # NoErr THEN [count |-> 0, err |-> dbErr]
    ELSE IF getErr # NoErr THEN [count |-> 0, err |-> getErr]
    ELSE LET got == Get(kv, NewTypeLabelTKey(i, label)) IN
         IF got.isNil THEN [count |-> 0, err |-> NoErr]
         ELSE IF Len(got.val) # 4 THEN [count |-> 0, err |-> "bad size in value"]
         ELSE [count |-> Uint32(got.val), err |-> NoErr]

IndexTypes == {0, 1}

Labels == {1, 258}

\* values of count records: counts in 4 little-endian bytes, and values of
\* other lengths as a damaged index holds them
CountValues ==
    {<<5, 0, 0, 0>>, <<0, 1, 0, 0>>, <<>>, <<1, 2, 3>>, <<1, 0, 0, 0, 0>>}

\* index states with count records for up to two (index type, label) pairs
IndexStates ==
    PartialFns({NewTypeLabelTKey(0, 1), NewTypeLabelTKey(1, 258)},
               CountValues)

CallGetCountElementType(label, i, dbErr, getErr) ==
    Returns("GetCountElementType", <<label, i, dbErr, getErr>>,
            GetCountElementType(index, label, i, dbErr, getErr))

InitLabelsz ==
    /\ ManagerInit
    /\ FilelogInit
    /\ LogInit
    /\ RoiInit
    /\ SyncInit
    /\ DatastoreInit
    /\ ServiceInit
    /\ index \in IndexStates
    /\ LabelszIdle

NextLabelsz ==
    \E label \in Labels, i \in IndexTypes,
       errs \in {<<NoErr, NoErr>>, <<"no store", NoErr>>,
                 <<NoErr, "get failed">>} :
        CallGetCountElementType(label, i, errs[1], errs[2])

SpecLabelsz == InitLabelsz /\ [][NextLabelsz]_vars

\* the key of the count record of (i, label): the tag R, the index type and
\* the label, most significant byte first
RecKey(i, label) == <<"R", i, 0, 0, 0, 0, 0, 0, label \div 256, label % 256>>

\* C20: when the store can be read, GetCountElementType(label, i) returns 0
\* and no error if the index has no record for (i, label), the stored count
\* if the record's value has exactly 4 bytes, and an error if it has another
\* length; and no call changes the index.
C20_GetCount ==
    /\ [](ret.op = "GetCountElementType" =>
            LET label == ret.args[1]
                i     == ret.args[2]
                k     == RecKey(i, label)
                out   == ret.val
            IN
            (ret.args[3] = NoErr /\ ret.args[4] = NoErr) =>
                /\ k \notin DOMAIN index =>
                      out.count = 0 /\ out.err = NoErr
                /\ (k \in DOMAIN index /\ Len(index[k]) = 4) =>
                      /\ out.err = NoErr
                      /\ out.count = index[k][1] + 256 * index[k][2]
                                       + 65536 * index[k][3]
                                       + 16777216 * index[k][4]
                /\ (k \in DOMAIN index /\ Len(index[k]) # 4) =>
                      out.err # NoErr)
    /\ [][index' = index]_vars

\* the three cases: no record, a count of 256, a value of 5 bytes
C20_Witness ==
    /\ ret.op = "GetCountElementType"
    /\ ret.args = <<258, 1, NoErr, NoErr>>
    /\ ret.val = [count |-> 256, err |-> NoErr]
    /\ NewTypeLabelTKey(0, 1) \in DOMAIN index
    /\ Len(index[NewTypeLabelTKey(0, 1)]) = 5

----------------------------------------------------------------------------
(* The size index of a labelsz data instance and its ordered scans *)

\* math.MaxUint32 and math.MaxUint64.  A uint32 is held as the integer of
\* -2^31 .. 2^31 - 1 that it is congruent to modulo 2^32, a uint64 likewise
\* modulo 2^64: the largest value of either type is the one congruent to -1.
MaxUint32 == -1

MaxUint64 == -1

\* a < b for two uint32 values
LessUint32(a, b) == IF (a < 0) = (b < 0) THEN a < b ELSE b < 0

\* binary.BigEndian.PutUint32 and Uint32
PutUint32BE(v) ==
    <<(v \div 16777216) % 256, (v \div 65536) % 256, (v \div 256) % 256,
      v % 256>>

Uint32BE(b) ==
    (IF b[1] >= 128 THEN b[1] - 256 ELSE b[1]) * 16777216
        + b[2] * 65536 + b[3] * 256 + b[4]

\* binary.BigEndian.Uint64 of the 8 bytes that PutUint64BE gives
Uint64BE(b) == Uint32BE(SubSeq(b, 5, 8))

\* NewTypeSizeLabelTKey(i, sz, label): the key of the size-index entry of a
\* label; the size is stored as MaxUint32 - sz so that larger sizes sort first
NewTypeSizeLabelTKey(i, sz, label) ==
    <<"S", i>> \o PutUint32BE(MaxUint32 - sz) \o PutUint64BE(label)

\* DecodeTypeSizeLabelTKey(k): index type, size and label of a size-index key
DecodeTypeSizeLabelTKey(k) ==
    IF Len(k) # 14 \/ k[1] # "S"
        THEN [idxType |-> 0, sz |-> 0, label |-> 0, err |-> "bad key"]
        ELSE [idxType |-> k[2],
              sz      |-> MaxUint32 - Uint32BE(SubSeq(k, 3, 6)),
              label   |-> Uint64BE(SubSeq(k, 7, 14)),
              err     |-> NoErr]

\* the bytes of a type-specific key: the tag byte, then the key's fields
TKeyBytes(k) == <<IF k[1] = "R" THEN 82 ELSE 83>> \o Tail(k)

\* bytes.Compare(a, b) < 0
BytesLess(a, b) ==
    \E j \in 1..Len(b) :
        /\ j <= Len(a) + 1
        /\ \A m \in 1..(j - 1) : a[m] = b[m]
        /\ (j = Len(a) + 1 \/ a[j] < b[j])

TKeyLess(k1, k2) == BytesLess(TKeyBytes(k1), TKeyBytes(k2))

\* a set of keys as the sequence in ascending key order
RECURSIVE Ascending(_)
Ascending(S) ==
    IF S = {} THEN <<>>
    ELSE LET k == CHOOSE x \in S : \A o \in S \ {x} : TKeyLess(x, o)
         IN <<k>> \o Ascending(S \ {k})

\* store.ProcessRange(ctx, begTKey, endTKey, ...): the keys of the store from
\* begTKey to endTKey, both included, in the order they are handed to the
\* callback
ProcessRange(kv, begTKey, endTKey) ==
    Ascending({k \in DOMAIN kv :
                  ~TKeyLess(k, begTKey) /\ ~TKeyLess(endTKey, k)})

shortCircuitErr == "Found data, aborting."

\* the callback of GetTopElementType applied to the chunks in order, lsz
\* being the entries set so far (rank = Len(lsz))
RECURSIVE TopScan(_, _, _, _)
TopScan(keys, n, i, lsz) ==
    IF keys = <<>> THEN [lsz |-> lsz, err |-> NoErr]
    ELSE LET d == DecodeTypeSizeLabelTKey(Head(keys)) IN
         IF d.err # NoErr THEN [lsz |-> lsz, err |-> d.err]
         ELSE IF d.idxType # i
             THEN [lsz |-> lsz, err |-> "bad iteration of keys"]
         ELSE LET lsz2 == Append(lsz, [Label |-> d.label, Size |-> d.sz]) IN
              IF Len(lsz2) >= n
                  THEN [lsz |-> lsz2, err |-> shortCircuitErr]
                  ELSE TopScan(Tail(keys), n, i, lsz2)

\* GetTopElementType that scans from the smallest key of the index type
GetTopElementType_FromMax(kv, n, i, dbErr, rangeErr) ==
    IF n < 0 THEN [lsz |-> <<>>, err |-> "bad N in top request"]
    ELSE IF n = 0 THEN [lsz |-> <<>>, err |-> NoErr]
    ELSE IF dbErr # NoErr THEN [lsz |-> <<>>, err |-> dbErr]
    ELSE IF rangeErr # NoErr THEN [lsz |-> <<>>, err |-> rangeErr]
    ELSE LET begTKey == NewTypeSizeLabelTKey(i, MaxUint32, 0)
             endTKey == NewTypeSizeLabelTKey(i, 0, MaxUint64)
             out == TopScan(ProcessRange(kv, begTKey, endTKey), n, i, <<>>)
         IN IF out.err # shortCircuitErr /\ out.err # NoErr
                THEN [lsz |-> <<>>, err |-> out.err]
                ELSE [lsz |-> out.lsz, err |-> NoErr]

\* GetTopElementType(ctx, n, i).  dbErr is the error of
\* d.GetOrderedKeyValueDB() and rangeErr the error of the store in
\* ProcessRange, NoErr when they succeed.
GetTopElementType(kv, n, i, dbErr, rangeErr) ==
    IF n < 0 THEN [lsz |-> <<>>, err |-> "bad N in top request"]
    ELSE IF n = 0 THEN [lsz |-> <<>>, err |-> NoErr]
    ELSE IF dbErr # NoErr THEN [lsz |-> <<>>, err |-> dbErr]
    ELSE IF rangeErr # NoErr THEN [lsz |-> <<>>, err |-> rangeErr]
    ELSE LET begTKey == NewTypeSizeLabelTKey(i, MaxUint32 - 1, 0)
             endTKey == NewTypeSizeLabelTKey(i, 0, MaxUint64)
             out == TopScan(ProcessRange(kv, begTKey, endTKey), n, i, <<>>)
         IN IF out.err # shortCircuitErr /\ out.err # NoErr
                THEN [lsz |-> <<>>, err |-> out.err]
                ELSE [lsz |-> out.lsz, err |-> NoErr]

\* MaxLabelsReturned, 10000 in the program
MaxLabelsReturned == 2

\* the callback of GetLabelsByThreshold applied to the chunks in order, lsz
\* being the entries saved so far (saved = Len(lsz))
RECURSIVE ThresholdScan(_, _, _, _, _, _, _)
ThresholdScan(keys, i, minSize, offset, nReturns, rank, lsz) ==
    IF keys = <<>> THEN [lsz |-> lsz, err |-> NoErr]
    ELSE LET d == DecodeTypeSizeLabelTKey(Head(keys)) IN
         IF d.err # NoErr THEN [lsz |-> lsz, err |-> d.err]
         ELSE IF d.idxType # i
             THEN [lsz |-> lsz, err |-> "bad iteration of keys"]
         ELSE IF LessUint32(d.sz, minSize)
             THEN [lsz |-> lsz, err |-> shortCircuitErr]
         ELSE IF rank >= offset /\ rank < offset + nReturns
             THEN LET lsz2 == Append(lsz, [Label |-> d.label, Size |-> d.sz])
                  IN IF Len(lsz2) = nReturns
                         THEN [lsz |-> lsz2, err |-> shortCircuitErr]
                         ELSE ThresholdScan(Tail(keys), i, minSize, offset,
                                            nReturns, rank + 1, lsz2)
         ELSE ThresholdScan(Tail(keys), i, minSize, offset, nReturns,
                            rank + 1, lsz)

\* GetLabelsByThreshold(ctx, i, minSize, offset, num)
GetLabelsByThreshold(kv, i, minSize, offset, num, dbErr, rangeErr) ==
    IF num < 0 THEN [lsz |-> <<>>, err |-> "bad num in threshold request"]
    ELSE IF dbErr # NoErr THEN [lsz |-> <<>>, err |-> dbErr]
    ELSE IF rangeErr # NoErr THEN [lsz |-> <<>>, err |-> rangeErr]
    ELSE LET nReturns == IF num = 0 THEN MaxLabelsReturned ELSE num
             begTKey == NewTypeSizeLabelTKey(i, MaxUint32 - 1, 0)
             endTKey == NewTypeSizeLabelTKey(i, 0, MaxUint64)
             out == ThresholdScan(ProcessRange(kv, begTKey, endTKey), i,
                                  minSize, offset, nReturns, 0, <<>>)
         IN IF out.err # shortCircuitErr /\ out.err # NoErr
                THEN [lsz |-> <<>>, err |-> out.err]
                ELSE [lsz |-> out.lsz, err |-> NoErr]

\* strconv.Atoi and strconv.ParseUint(s, 10, 32) on a string given as the
\* sequence of its characters (the numbers of the model have at most 2 digits)
Digits == <<"0", "1", "2", "3", "4", "5", "6", "7", "8", "9">>

IsDigits(s) ==
    /\ Len(s) > 0
    /\ \A j \in 1..Len(s) : \E d \in 1..10 : Digits[d] = s[j]

RECURSIVE DecimalValue(_)
DecimalValue(s) ==
    IF s = <<>> THEN 0
    ELSE 10 * DecimalValue(SubSeq(s, 1, Len(s) - 1))
            + ((CHOOSE d \in 1..10 : Digits[d] = s[Len(s)]) - 1)

Atoi(s) ==
    IF IsDigits(s) THEN [val |-> DecimalValue(s), err |-> NoErr]
    ELSE IF Len(s) > 1 /\ s[1] = "-" /\ IsDigits(Tail(s))
        THEN [val |-> 0 - DecimalValue(Tail(s)), err |-> NoErr]
    ELSE IF Len(s) > 1 /\ s[1] = "+" /\ IsDigits(Tail(s))
        THEN [val |-> DecimalValue(Tail(s)), err |-> NoErr]
    ELSE [val |-> 0, err |-> "invalid syntax"]

ParseUint(s) ==
    IF IsDigits(s) THEN [val |-> DecimalValue(s), err |-> NoErr]
                   ELSE [val |-> 0, err |-> "invalid syntax"]

\* the value StringToIndexType gives for a name that is no index type
UnknownIndex == 255

\* A request of the threshold endpoint: the action, parts[4] and the index
\* type that parts[5] names, and the values of the query strings offset and
\* n, empty when the query string is absent.
ThresholdRequest(action, t, i, offsetStr, numStr) ==
    [action |-> action, t |-> t, i |-> i, offset |-> offsetStr,
     n |-> numStr]

BadRequest(err) == [status |-> 400, labels |-> <<>>, err |-> err]

\* ServeHTTP, case "threshold": the response; the body of a 200 response is
\* the JSON array of the entries of labels, in their order.
ServeHTTP_threshold(kv, r, dbErr, rangeErr) ==
    IF r.action # "get"
        THEN BadRequest("Only GET action is available on 'threshold' endpoint.")
    ELSE LET t == ParseUint(r.t) IN
    IF t.err # NoErr THEN BadRequest(t.err)
    ELSE IF r.i = UnknownIndex
        THEN BadRequest("unknown index type specified")
    ELSE LET offset == IF r.offset # <<>> THEN Atoi(r.offset)
                                          ELSE [val |-> 0, err |-> NoErr]
         IN
    IF offset.err # NoErr
        THEN BadRequest("bad offset specified in query string")
    ELSE LET num == IF r.n # <<>> THEN Atoi(r.n)
                                  ELSE [val |-> 0, err |-> NoErr]
         IN
    IF num.err # NoErr THEN BadRequest("bad num specified in query string")
    ELSE LET out == GetLabelsByThreshold(kv, r.i, t.val, offset.val, num.val,
                                         dbErr, rangeErr)
         IN IF out.err # NoErr THEN BadRequest(out.err)
            ELSE [status |-> 200, labels |-> out.lsz, err |-> NoErr]

\* The index states of the scans: every label of ScanSlots has a count, and
\* a label with a count above 0 has its count record and its size-index entry.
ScanSlots == {<<0, 1>>, <<0, 2>>, <<0, 258>>, <<1, 1>>}

ScanCounts == {0, 1, 2, MaxUint32}

IndexOfCounts(c) ==
    LET live == {s \in DOMAIN c : c[s] # 0}
        slot(k) == CHOOSE s \in live : NewTypeLabelTKey(s[1], s[2]) = k
        keys == {NewTypeLabelTKey(s[1], s[2]) : s \in live}
                \cup {NewTypeSizeLabelTKey(s[1], c[s], s[2]) : s \in live}
    IN [k \in keys |-> IF k[1] = "R" THEN PutUint32(c[slot(k)]) ELSE <<>>]

ScanStates ==
    {IndexOfCounts(c) :
        c \in {f \in [ScanSlots -> ScanCounts] :
                   /\ f[<<0, 2>>] # MaxUint32
                   /\ f[<<0, 258>>] \in {1, 2}
                   /\ f[<<1, 1>>] \in {0, 2}}}

StoreErrors == {<<NoErr, NoErr>>, <<"no store", NoErr>>, <<NoErr, "range failed">>}

CallGetTopElementType(n, i, dbErr, rangeErr) ==
    Returns("GetTopElementType", <<n, i, dbErr, rangeErr>>,
            GetTopElementType(index, n, i, dbErr, rangeErr))

CallGetLabelsByThreshold(i, minSize, offset, num, dbErr, rangeErr) ==
    Returns("GetLabelsByThreshold", <<i, minSize, offset, num, dbErr, rangeErr>>,
            GetLabelsByThreshold(index, i, minSize, offset, num, dbErr,
                                 rangeErr))

CallServeHTTP_threshold(r, dbErr, rangeErr) ==
    Returns("ServeHTTP threshold", <<r, dbErr, rangeErr>>,
            ServeHTTP_threshold(index, r, dbErr, rangeErr))

QueryStrings == {<<>>, <<"0">>, <<"3">>, <<"-", "1">>, <<"x">>}

ThresholdRequests ==
    {ThresholdRequest("get", <<"1">>, 0, o, n) :
        o \in {<<>>, <<"3">>, <<"x">>}, n \in QueryStrings}
    \cup {ThresholdRequest("post", <<"1">>, 0, <<>>, <<>>),
          ThresholdRequest("get", <<"-", "1">>, 0, <<>>, <<>>),
          ThresholdRequest("get", <<"1">>, UnknownIndex, <<>>, <<>>),
          ThresholdRequest("get", <<"2">>, 1, <<>>, <<"1">>)}

InitLabelszScan ==
    /\ ManagerInit
    /\ FilelogInit
    /\ LogInit
    /\ RoiInit
    /\ SyncInit
    /\ DatastoreInit
    /\ ServiceInit
    /\ index \in ScanStates
    /\ LabelszIdle

NextLabelszScan ==
    \/ \E n \in (0 - 1)..(MaxLabelsReturned + 1), i \in IndexTypes :
          CallGetTopElementType(n, i, NoErr, NoErr)
    \/ \E errs \in StoreErrors :
          CallGetTopElementType(1, 0, errs[1], errs[2])
    \/ \E minSize \in {0, 1, 2}, offset \in {0, 1, MaxLabelsReturned + 1},
          num \in {0 - 1, 0, 1, MaxLabelsReturned + 1} :
          CallGetLabelsByThreshold(0, minSize, offset, num, NoErr, NoErr)
    \/ \E minSize \in {0, 2}, num \in {0, 1} :
          CallGetLabelsByThreshold(1, minSize, 0, num, NoErr, NoErr)
    \/ \E errs \in StoreErrors :
          CallGetLabelsByThreshold(0, 1, 0, 0, errs[1], errs[2])
    \/ \E r \in ThresholdRequests :
          CallServeHTTP_threshold(r, NoErr, NoErr)
    \/ \E r \in ThresholdRequests, errs \in StoreErrors :
          /\ r.offset = <<>> /\ r.n = <<>>
          /\ CallServeHTTP_threshold(r, errs[1], errs[2])

SpecLabelszScan == InitLabelszScan /\ [][NextLabelszScan]_vars

----------------------------------------------------------------------------
(* Claims on the ordered scans of the size index *)

\* the stored count of (i, label) as 4 bytes, most significant first; a label
\* without a count record has the count 0
CountBytes(kv, i, label) ==
    LET k == RecKey(i, label) IN
    IF k \in DOMAIN kv
        THEN <<kv[k][4], kv[k][3], kv[k][2], kv[k][1]>>
        ELSE <<0, 0, 0, 0>>

\* the labels of index type i whose count is at least T and above 0
LabelsAtLeast(kv, i, T) ==
    {s[2] : s \in {x \in ScanSlots :
                      /\ x[1] = i
                      /\ CountBytes(kv, i, x[2]) # <<0, 0, 0, 0>>
                      /\ ~BytesLess(CountBytes(kv, i, x[2]), PutUint32BE(T))}}

\* label a comes before label b in the descending-count list
RanksBefore(kv, i, a, b) ==
    \/ BytesLess(CountBytes(kv, i, b), CountBytes(kv, i, a))
    \/ CountBytes(kv, i, a) = CountBytes(kv, i, b) /\ a < b

RECURSIVE RankedSet(_, _, _)
RankedSet(kv, i, L) ==
    IF L = {} THEN <<>>
    ELSE LET a == CHOOSE x \in L : \A o \in L \ {x} : RanksBefore(kv, i, x, o)
         IN <<a>> \o RankedSet(kv, i, L \ {a})

\* the labels of index type i with a count of at least T, largest count
\* first, equal counts by ascending label
Ranked(kv, i, T) == RankedSet(kv, i, LabelsAtLeast(kv, i, T))

\* lsz lists exactly the labels R[from] .. R[to] of a ranked list R (as far
\* as R reaches), each with its stored count
ListsRanks(kv, i, lsz, R, from, to) ==
    LET last == IF to < Len(R) THEN to ELSE Len(R)
        want == IF from > last THEN <<>> ELSE SubSeq(R, from, last)
    IN /\ Len(lsz) = Len(want)
       /\ \A j \in 1..Len(want) :
             /\ lsz[j].Label = want[j]
             /\ PutUint32BE(lsz[j].Size) = CountBytes(kv, i, want[j])

\* C21: GetTopElementType(n, i) returns min(n, number of labels with a count
\* above 0 for index type i) entries: the labels with the largest counts, in
\* non-increasing count order, equal counts by ascending label; n = 0 gives
\* the empty list and n < 0 an error.
C21_TopN ==
    (ret.op = "GetTopElementType" /\ ret.args[3] = NoErr
                                  /\ ret.args[4] = NoErr) =>
        LET n == ret.args[1]
            i == ret.args[2]
        IN /\ n < 0 => ret.val.err # NoErr
           /\ n = 0 => ret.val = [lsz |-> <<>>, err |-> NoErr]
           /\ n > 0 => /\ ret.val.err = NoErr
                       /\ ListsRanks(index, i, ret.val.lsz,
                                     Ranked(index, i, 0), 1, n)

\* C22: GetLabelsByThreshold(i, T, offset, num) with offset >= 0 and num > 0
\* returns the entries at the 0-based ranks offset .. offset+num-1 of the
\* descending-count list of the labels of index type i with a count of at
\* least T (the empty list when offset is beyond that list), and an error
\* when num < 0.
C22_Threshold ==
    (ret.op = "GetLabelsByThreshold" /\ ret.args[5] = NoErr
                                     /\ ret.args[6] = NoErr) =>
        LET i      == ret.args[1]
            T      == ret.args[2]
            offset == ret.args[3]
            num    == ret.args[4]
        IN /\ num < 0 => ret.val.err # NoErr
           /\ (num > 0 /\ offset >= 0) =>
                 /\ ret.val.err = NoErr
                 /\ ListsRanks(index, i, ret.val.lsz, Ranked(index, i, T),
                               offset + 1, offset + num)

\* C23: a threshold query never returns more than MaxLabelsReturned labels,
\* whatever number is requested.
C23_AtMostMaxLabels ==
    /\ ret.op = "GetLabelsByThreshold" =>
          Len(ret.val.lsz) <= MaxLabelsReturned
    /\ ret.op = "ServeHTTP threshold" =>
          Len(ret.val.labels) <= MaxLabelsReturned

C25_Pages ==
    (/\ ret.op = "ServeHTTP threshold"
     /\ ret.args[2] = NoErr /\ ret.args[3] = NoErr
     /\ ret.args[1].action = "get"
     /\ ret.args[1].i # UnknownIndex
     /\ ParseUint(ret.args[1].t).err = NoErr
     /\ Atoi(ret.args[1].offset).err = NoErr
     /\ Atoi(ret.args[1].offset).val = MaxLabelsReturned + 1
     /\ Len(Ranked(index, ret.args[1].i, ParseUint(ret.args[1].t).val))
           > MaxLabelsReturned) =>
        LET r     == ret.args[1]
            R     == Ranked(index, r.i, ParseUint(r.t).val)
            first == ServeHTTP_threshold(index, [r EXCEPT !.offset = <<>>,
                                                          !.n = <<>>],
                                         NoErr, NoErr)
        IN /\ r.n = <<>> =>
                 /\ first.status = 200 /\ ret.val.status = 200
                 /\ ListsRanks(index, r.i, first.labels \o ret.val.labels, R,
                               1, 2 * MaxLabelsReturned)
           /\ (Atoi(r.n).err = NoErr /\ Atoi(r.n).val > 0) =>
                 /\ ret.val.status = 200
                 /\ ListsRanks(index, r.i, ret.val.labels, R,
                               MaxLabelsReturned + 1,
                               MaxLabelsReturned + Atoi(r.n).val)

----------------------------------------------------------------------------
(* The index under annotation events and concurrent reads *)

outsideHandler ==
    <<routingVars, ret, filelogVars, logVars, datastoreVars, syncVars,
      serviceVars>>

outsideLabelsz == <<outsideHandler, roiVars>>

\* store.Put and store.Delete
Put(kv, k, v) == [x \in DOMAIN kv \cup {k} |-> IF x = k THEN v ELSE kv[x]]

Delete(kv, k) == [x \in DOMAIN kv \ {k} |-> kv[x]]

\* the count read from the count record of (i, label), 0 if there is none
StoredCount(kv, i, label) ==
    LET got == Get(kv, NewTypeLabelTKey(i, label)) IN
    IF got.isNil THEN 0 ELSE Uint32(got.val)

SyncLabels == {1, 2}

\* the largest count an event may raise a label to
MaxCount == 2

Events ==
    {Event("add", 0, 0, l) : l \in SyncLabels}
    \cup {Event("delete", 0, l, 0) : l \in SyncLabels}
    \cup {Event("move", 0, m[1], m[2]) :
             m \in {x \in SyncLabels \X SyncLabels : x[1] # x[2]}}

\* the affected labels of an event with their deltas, in the order they are
\* applied: a move is a delete at the old label, then an add at the new one
Deltas(e) ==
    IF e.kind = "add" THEN << <<e.new, 1>> >>
    ELSE IF e.kind = "delete" THEN << <<e.old, 0 - 1>> >>
    ELSE << <<e.old, 0 - 1>>, <<e.new, 1>> >>

\* The handler takes the write lock for the event.
MutatorLock(e) ==
    /\ mutator.pc = "idle"
    /\ ~rwmutex.writer /\ rwmutex.readers = {}
    /\ e.kind \in {"add", "move"} => StoredCount(index, e.i, e.new) < MaxCount
    /\ rwmutex' = [rwmutex EXCEPT !.writer = TRUE]
    /\ mutator' = [IdleMutator EXCEPT !.pc = "read", !.event = e,
                                      !.todo = Deltas(e), !.before = index]
    /\ UNCHANGED <<index, reader>>
    /\ UNCHANGED outsideHandler

\* MutatorRead that takes a decrement below zero for a count of 0
MutatorRead_Clamped ==
    /\ mutator.pc = "read"
    /\ LET label == Head(mutator.todo)[1]
           delta == Head(mutator.todo)[2]
           c     == StoredCount(index, mutator.event.i, label)
       IN mutator' = [mutator EXCEPT
                         !.pc = "deleteSize", !.c = c,
                         !.c2 = IF c + delta < 0 THEN 0 ELSE c + delta]
    /\ UNCHANGED <<index, rwmutex, reader>>
    /\ UNCHANGED outsideLabelsz

\* Read the current count c of the next affected label and compute
\* c' = c + delta; a decrement below zero is an internal consistency error
\* that ends the event without a write.
MutatorRead ==
    /\ mutator.pc = "read"
    /\ LET label == Head(mutator.todo)[1]
           delta == Head(mutator.todo)[2]
           c     == StoredCount(index, mutator.event.i, label)
       IN IF c + delta < 0
              THEN /\ mutator' = [mutator EXCEPT
                                     !.pc = "idle", !.todo = <<>>,
                                     !.err = "decrement below zero"]
                   /\ rwmutex' = [rwmutex EXCEPT !.writer = FALSE]
              ELSE /\ mutator' = [mutator EXCEPT !.pc = "deleteSize",
                                                 !.c = c, !.c2 = c + delta]
                   /\ UNCHANGED rwmutex
    /\ UNCHANGED <<index, reader>>
    /\ UNCHANGED outsideLabelsz

\* MutatorDeleteSize that leaves the old size-index entry
MutatorDeleteSize_Kept ==
    /\ mutator.pc = "deleteSize"
    /\ mutator' = [mutator EXCEPT !.pc = "putSize"]
    /\ UNCHANGED <<index, rwmutex, reader>>
    /\ UNCHANGED outsideLabelsz

\* Delete SizeKey(i, c, L) if c > 0.
MutatorDeleteSize ==
    /\ mutator.pc = "deleteSize"
    /\ LET label == Head(mutator.todo)[1] IN
       index' = IF mutator.c > 0
                    THEN Delete(index, NewTypeSizeLabelTKey(mutator.event.i,
                                                            mutator.c, label))
                    ELSE index
    /\ mutator' = [mutator EXCEPT !.pc = "putSize"]
    /\ UNCHANGED <<rwmutex, reader>>
    /\ UNCHANGED outsideLabelsz

\* If c' > 0, write SizeKey(i, c', L).
MutatorPutSize ==
    /\ mutator.pc = "putSize"
    /\ LET label == Head(mutator.todo)[1] IN
       index' = IF mutator.c2 > 0
                    THEN Put(index, NewTypeSizeLabelTKey(mutator.event.i,
                                                         mutator.c2, label),
                             <<>>)
                    ELSE index
    /\ mutator' = [mutator EXCEPT !.pc = "putRecord"]
    /\ UNCHANGED <<rwmutex, reader>>
    /\ UNCHANGED outsideLabelsz

\* If c' > 0, write RecKey(i, L) = c', else delete RecKey(i, L); then go on
\* with the next affected label, or release the write lock after the last.
MutatorPutRecord ==
    /\ mutator.pc = "putRecord"
    /\ LET label == Head(mutator.todo)[1]
           k     == NewTypeLabelTKey(mutator.event.i, label)
       IN index' = IF mutator.c2 > 0 THEN Put(index, k, PutUint32(mutator.c2))
                                     ELSE Delete(index, k)
    /\ IF Len(mutator.todo) > 1
           THEN /\ mutator' = [mutator EXCEPT !.pc = "read",
                                              !.todo = Tail(mutator.todo)]
                /\ UNCHANGED rwmutex
           ELSE /\ mutator' = IdleMutator
                /\ rwmutex' = [rwmutex EXCEPT !.writer = FALSE]
    /\ UNCHANGED reader
    /\ UNCHANGED outsideLabelsz

\* what a scan returns when its callback has given out
ScanResult(out) ==
    IF out.err # shortCircuitErr /\ out.err # NoErr
        THEN [lsz |-> <<>>, err |-> out.err]
        ELSE [lsz |-> out.lsz, err |-> NoErr]

\* the callback of the reader's scan applied to the keys handed to it so far
ScanOut(op, args, keys) ==
    IF op = "GetTopElementType"
        THEN TopScan(keys, args[1], args[2], <<>>)
        ELSE ThresholdScan(keys, args[1], args[2], args[3],
                           IF args[4] = 0 THEN MaxLabelsReturned ELSE args[4],
                           0, <<>>)

\* the index type of a scan
ScanType(op, args) == IF op = "GetTopElementType" THEN args[2] ELSE args[1]

\* The calls of the reader:
\* GetCountElementType(label, i), GetTopElementType(n, i) and
\* GetLabelsByThreshold(i, minSize, offset, num).
ReadCalls ==
    {<<"GetCountElementType", <<l, 0>> >> : l \in SyncLabels}
    \cup {<<"GetTopElementType", <<n, 0>> >> : n \in {0 - 1, 0, 1, 2}}
    \cup {<<"GetLabelsByThreshold", a>> :
             a \in {<<0, 1, 0, 0>>, <<0, 2, 0, 1>>, <<0, 1, 1, 1>>,
                    <<0, 1, 0, 0 - 1>>}}

\* A read is called: it returns at once for a bad or zero N or a bad num,
\* and otherwise gets the store.
ReaderCall(op, args) ==
    /\ reader.pc = "idle"
    /\ reader' =
         IF op = "GetTopElementType" /\ args[1] < 0
             THEN [IdleReader EXCEPT !.op = op, !.args = args,
                      !.result = [lsz |-> <<>>,
                                  err |-> "bad N in top request"]]
         ELSE IF op = "GetTopElementType" /\ args[1] = 0
             THEN [IdleReader EXCEPT !.op = op, !.args = args,
                      !.result = [lsz |-> <<>>, err |-> NoErr]]
         ELSE IF op = "GetLabelsByThreshold" /\ args[4] < 0
             THEN [IdleReader EXCEPT !.op = op, !.args = args,
                      !.result = [lsz |-> <<>>,
                                  err |-> "bad num in threshold request"]]
         ELSE [IdleReader EXCEPT !.pc = "store", !.op = op, !.args = args]
    /\ UNCHANGED <<index, rwmutex, mutator>>
    /\ UNCHANGED outsideLabelsz

\* d.RLock() without waiting for the writer
ReaderRLock_Unguarded ==
    /\ reader.pc = "store"
    /\ rwmutex' = [rwmutex EXCEPT !.readers = @ \cup {"reader"}]
    /\ reader' = [reader EXCEPT !.pc = "locked"]
    /\ UNCHANGED <<index, mutator>>
    /\ UNCHANGED outsideLabelsz

\* d.RLock()
ReaderRLock ==
    /\ reader.pc = "store"
    /\ ~rwmutex.writer
    /\ rwmutex' = [rwmutex EXCEPT !.readers = @ \cup {"reader"}]
    /\ reader' = [reader EXCEPT !.pc = "locked"]
    /\ UNCHANGED <<index, mutator>>
    /\ UNCHANGED outsideLabelsz

\* GetCountElementType: store.Get and the decoding of its value
ReaderGet ==
    /\ reader.pc = "locked"
    /\ reader.op = "GetCountElementType"
    /\ reader' = [reader EXCEPT
                     !.pc = "got",
                     !.result = GetCountElementType(index, reader.args[1],
                                                    reader.args[2], NoErr,
                                                    NoErr)]
    /\ UNCHANGED <<index, rwmutex, mutator>>
    /\ UNCHANGED outsideLabelsz

\* store.ProcessRange hands the next key of the range to the callback, or
\* ends at the end of the range
ReaderNext ==
    /\ reader.pc = "locked"
    /\ reader.op # "GetCountElementType"
    /\ LET i       == ScanType(reader.op, reader.args)
           begTKey == NewTypeSizeLabelTKey(i, MaxUint32 - 1, 0)
           endTKey == NewTypeSizeLabelTKey(i, 0, MaxUint64)
           range   == ProcessRange(index, begTKey, endTKey)
           after   == {j \in 1..Len(range) :
                          reader.seen = <<>>
                          \/ TKeyLess(reader.seen[Len(reader.seen)], range[j])}
       IN IF after = {}
              THEN reader' = [reader EXCEPT
                                 !.pc = "got",
                                 !.result = ScanResult(ScanOut(reader.op,
                                                reader.args, reader.seen))]
              ELSE LET j    == CHOOSE x \in after : \A y \in after : x <= y
                       seen == Append(reader.seen, range[j])
                       out  == ScanOut(reader.op, reader.args, seen)
                   IN reader' = IF out.err # NoErr
                                    THEN [reader EXCEPT
                                             !.pc = "got", !.seen = seen,
                                             !.result = ScanResult(out)]
                                    ELSE [reader EXCEPT !.seen = seen]
    /\ UNCHANGED <<index, rwmutex, mutator>>
    /\ UNCHANGED outsideLabelsz

\* the deferred d.RUnlock() and the return
ReaderRUnlock ==
    /\ reader.pc = "got"
    /\ rwmutex' = [rwmutex EXCEPT !.readers = @ \ {"reader"}]
    /\ reader' = [reader EXCEPT !.pc = "idle", !.seen = <<>>]
    /\ UNCHANGED <<index, mutator>>
    /\ UNCHANGED outsideLabelsz

NextLabelszSync ==
    \/ \E e \in Events : MutatorLock(e) /\ UNCHANGED roiVars
    \/ MutatorRead
    \/ MutatorDeleteSize
    \/ MutatorPutSize
    \/ MutatorPutRecord
    \/ \E c \in ReadCalls : ReaderCall(c[1], c[2])
    \/ ReaderRLock
    \/ ReaderGet
    \/ ReaderNext
    \/ ReaderRUnlock

SpecLabelszSync == Init /\ [][NextLabelszSync]_vars

----------------------------------------------------------------------------
(* Claims on the index under events and concurrent reads *)

\* the size-index entries of (i, label)
SizeEntries(kv, i, label) ==
    {k \in DOMAIN kv : /\ k[1] = "S"
                       /\ k[2] = i
                       /\ SubSeq(k, 7, 14) = SubSeq(RecKey(i, label), 3, 10)}

\* record and size index agree on (i, label): a count record exists iff
\* exactly one size-index entry exists and carries the record's count, iff
\* the stored count is above 0; without a record there is no entry
Settled(kv, i, label) ==
    LET rec     == RecKey(i, label) \in DOMAIN kv
        count   == IF rec THEN kv[RecKey(i, label)] ELSE <<0, 0, 0, 0>>
        entries == SizeEntries(kv, i, label)
        one     == /\ Cardinality(entries) = 1
                   /\ \A k \in entries :
                         <<255 - k[6], 255 - k[5], 255 - k[4], 255 - k[3]>>
                             = count
    IN /\ rec <=> one
       /\ rec <=> (Len(count) = 4 /\ count # <<0, 0, 0, 0>>)
       /\ ~rec => entries = {}

\* what the read in progress returns when applied to an index in one piece
PureRead(kv, op, args) ==
    IF op = "GetCountElementType"
        THEN GetCountElementType(kv, args[1], args[2], NoErr, NoErr)
    ELSE IF op = "GetTopElementType"
        THEN GetTopElementType(kv, args[1], args[2], NoErr, NoErr)
    ELSE GetLabelsByThreshold(kv, args[1], args[2], args[3], args[4], NoErr,
                              NoErr)

ReaderHoldsLock == reader.pc \in {"locked", "got"}

\* C26: index reads are snapshot-stable: while get_count, top_n or threshold
\* holds the read lock no event is between its writes, record and size index
\* agree on every label, the index does not change, and the read returns what
\* it returns on that index.
C26_SnapshotStable ==
    /\ [](ReaderHoldsLock =>
            /\ mutator.pc = "idle"
            /\ ~rwmutex.writer
            /\ \A l \in SyncLabels : Settled(index, 0, l))
    /\ [](reader.pc = "got" =>
            reader.result = PureRead(index, reader.op, reader.args))
    /\ [][ReaderHoldsLock => index' = index]_vars

\* a top scan that was handed two size-index entries one after the other,
\* while an event waits for the lock or none has come
C26_Witness ==
    /\ reader.pc = "got"
    /\ reader.op = "GetTopElementType"
    /\ Len(reader.seen) = 2
    /\ Len(reader.result.lsz) = 2
    /\ reader.result.lsz[1].Size = 2

\* C27: after any sequence of add, delete and move events, for every label:
\* a count record exists iff exactly one size-index entry exists and carries
\* the same count, iff the stored count is above 0; a label whose count is 0
\* has no entry in either table.
C27_RecordIffSizeEntry ==
    mutator.pc = "idle" =>
        \A i \in IndexTypes, l \in SyncLabels : Settled(index, i, l)

\* after a move that took label 1 back to no entry and label 2 to a count of 2
C27_Witness ==
    /\ mutator.pc = "idle"
    /\ mutator.err = NoErr
    /\ DOMAIN index = {NewTypeLabelTKey(0, 2), NewTypeSizeLabelTKey(0, 2, 2)}
    /\ reader.op = "GetCountElementType"
    /\ reader.args = <<1, 0>>
    /\ reader.result = [count |-> 1, err |-> NoErr]

\* C28: a delete, or the delete half of a move, for a label whose count is 0
\* raises an internal consistency error and leaves every record and every
\* size-index entry as it was before the event.
C28_DeleteAtZero ==
    /\ []((mutator.pc = "idle" /\ mutator.err # NoErr) =>
             index = mutator.before)
    /\ [][(/\ mutator.pc = "read"
           /\ mutator' # mutator
           /\ Head(mutator.todo)[2] < 0
           /\ RecKey(mutator.event.i, Head(mutator.todo)[1])
                 \notin DOMAIN index)
          => /\ mutator'.pc = "idle"
             /\ mutator'.err # NoErr
             /\ index' = index
             /\ index = mutator.before]_vars

\* a move from a label without a count, refused with the index left as it was
C28_Witness ==
    /\ mutator.pc = "idle"
    /\ mutator.err # NoErr
    /\ mutator.event.kind = "move"
    /\ index # EmptyMap
    /\ index = mutator.before

----------------------------------------------------------------------------
(* The version DAG and versioned reads and writes *)

outsideDatastore ==
    <<routingVars, filelogVars, logVars, labelszVars, syncVars, roiVars>>

\* the parent of a root version
NoVersion == 0

\* the largest number of versions of the datastore
MaxVersions == 3

\* The service puts the datasets configuration into the metadata store, which
\* buffers the write until the store is closed.
Saves(d, inst) ==
    metadata' = [metadata EXCEPT !.buffer = <<EncodeDatasets(d, inst)>>]

\* a call of the service returns
ServiceReturns(op, args, val) ==
    /\ ret' = [op |-> op, args |-> args, val |-> val]
    /\ UNCHANGED outsideDatastore

\* service.NewDataset(): a new dataset with an unlocked root version
NewDataset ==
    /\ service = "open"
    /\ Len(dag) < MaxVersions
    /\ dag' = Append(dag, [parent |-> NoVersion, locked |-> FALSE])
    /\ Saves(dag', instances)
    /\ ServiceReturns("NewDataset", <<>>,
                      [uuid |-> Len(dag) + 1, err |-> NoErr])
    /\ UNCHANGED <<versioned, service, instances>>

\* service.Lock(uuid)
Lock(uuid) ==
    /\ service = "open"
    /\ IF uuid \in 1..Len(dag)
           THEN /\ dag' = [dag EXCEPT ![uuid].locked = TRUE]
                /\ Saves(dag', instances)
                /\ ServiceReturns("Lock", <<uuid>>, [err |-> NoErr])
           ELSE /\ dag' = dag
                /\ UNCHANGED metadata
                /\ ServiceReturns("Lock", <<uuid>>,
                                  [err |-> "unknown version"])
    /\ UNCHANGED <<versioned, service, instances>>

\* service.NewVersion that branches from an unlocked parent as well
NewVersion_Unlocked(parent) ==
    /\ service = "open"
    /\ Len(dag) < MaxVersions
    /\ IF parent \in 1..Len(dag)
           THEN /\ dag' = Append(dag, [parent |-> parent, locked |-> FALSE])
                /\ Saves(dag', instances)
                /\ ServiceReturns("NewVersion", <<parent>>,
                                  [uuid |-> Len(dag) + 1, err |-> NoErr])
           ELSE /\ dag' = dag
                /\ UNCHANGED metadata
                /\ ServiceReturns("NewVersion", <<parent>>,
                                  [uuid |-> NoVersion,
                                   err |-> "cannot branch"])
    /\ UNCHANGED <<versioned, service, instances>>

\* service.NewVersion(parent): a child version of a locked parent
NewVersion(parent) ==
    /\ service = "open"
    /\ Len(dag) < MaxVersions
    /\ IF parent \in 1..Len(dag) /\ dag[parent].locked
           THEN /\ dag' = Append(dag, [parent |-> parent, locked |-> FALSE])
                /\ Saves(dag', instances)
                /\ ServiceReturns("NewVersion", <<parent>>,
                                  [uuid |-> Len(dag) + 1, err |-> NoErr])
           ELSE /\ dag' = dag
                /\ UNCHANGED metadata
                /\ ServiceReturns("NewVersion", <<parent>>,
                                  [uuid |-> NoVersion,
                                   err |-> "cannot branch"])
    /\ UNCHANGED <<versioned, service, instances>>

NextVersions ==
    \/ NewDataset
    \/ \E uuid \in 1..MaxVersions : Lock(uuid)
    \/ \E parent \in 1..MaxVersions : NewVersion(parent)

SpecVersions == Init /\ [][NextVersions]_vars

\* the value a versioned delete writes
Tombstone == "tombstone"

NotFound == "not found"

VersionedKeys == {"k"}

VersionedValues == {"a", "b"}

\* the ancestry of a version: the version, its parent, ..., the root
RECURSIVE Ancestry(_, _)
Ancestry(d, v) ==
    IF v = NoVersion THEN <<>> ELSE <<v>> \o Ancestry(d, d[v].parent)

\* the first value of the key along an ancestry
RECURSIVE FirstWritten(_, _, _)
FirstWritten(kv, walk, key) ==
    IF walk = <<>> THEN NotFound
    ELSE IF <<key, Head(walk)>> \in DOMAIN kv
        THEN kv[<<key, Head(walk)>>]
    ELSE FirstWritten(kv, Tail(walk), key)

\* versioned_get that reads at the bound version only
versioned_get_OwnOnly(kv, d, v, key) ==
    LET val == FirstWritten(kv, <<v>>, key) IN
    IF val = Tombstone THEN NotFound ELSE val

\* versioned_get(store, type_key) of the context bound to version v
versioned_get(kv, d, v, key) ==
    LET val == FirstWritten(kv, Ancestry(d, v), key) IN
    IF val = Tombstone THEN NotFound ELSE val

\* versioned_put(store, type_key, value): writes at the bound version only
versioned_put(kv, v, key, value) == Put(kv, <<key, v>>, value)

\* versioned_delete(store, type_key): writes a tombstone at the bound version
versioned_delete(kv, v, key) == Put(kv, <<key, v>>, Tombstone)

CallVersionedGet(v, key) ==
    /\ v \in 1..Len(dag)
    /\ ServiceReturns("versioned_get", <<v, key>>,
                      versioned_get(versioned, dag, v, key))
    /\ UNCHANGED <<dag, versioned, serviceVars>>

CallVersionedPut(v, key, value) ==
    /\ v \in 1..Len(dag)
    /\ versioned' = versioned_put(versioned, v, key, value)
    /\ ServiceReturns("versioned_put", <<v, key, value>>, NoErr)
    /\ UNCHANGED <<dag, serviceVars>>

CallVersionedDelete(v, key) ==
    /\ v \in 1..Len(dag)
    /\ versioned' = versioned_delete(versioned, v, key)
    /\ ServiceReturns("versioned_delete", <<v, key>>, NoErr)
    /\ UNCHANGED <<dag, serviceVars>>

\* The version DAGs of the versioned reads and writes: a chain of three
\* versions, a root with two children, and two datasets of which the first
\* has a child.
DagShapes ==
    {<<[parent |-> NoVersion, locked |-> TRUE],
       [parent |-> 1, locked |-> TRUE],
       [parent |-> 2, locked |-> FALSE]>>,
     <<[parent |-> NoVersion, locked |-> TRUE],
       [parent |-> 1, locked |-> FALSE],
       [parent |-> 1, locked |-> FALSE]>>,
     <<[parent |-> NoVersion, locked |-> TRUE],
       [parent |-> NoVersion, locked |-> FALSE],
       [parent |-> 1, locked |-> FALSE]>>}

InitVersioned ==
    /\ ManagerInit
    /\ FilelogInit
    /\ LogInit
    /\ RoiInit
    /\ SyncInit
    /\ LabelszInit
    /\ dag \in DagShapes
    /\ versioned = EmptyMap
    /\ ServiceInit

NextVersioned ==
    \E v \in 1..MaxVersions, key \in VersionedKeys :
        \/ CallVersionedGet(v, key)
        \/ \E value \in VersionedValues : CallVersionedPut(v, key, value)
        \/ CallVersionedDelete(v, key)

SpecVersioned == InitVersioned /\ [][NextVersioned]_vars

----------------------------------------------------------------------------
(* Claims on versions *)

\* C29: a child version can only be created from a locked parent:
\* NewVersion(parent) returns an error and creates nothing while parent is
\* unlocked and makes a child of parent once parent is locked; in every
\* reachable state the parent of each version that is no root is locked.
C29_ChildOfLockedParent ==
    /\ [](\A v \in 1..Len(dag) :
             dag[v].parent # NoVersion =>
                 /\ dag[v].parent \in 1..Len(dag)
                 /\ dag[dag[v].parent].locked)
    /\ [][(ret'.op = "NewVersion" /\ (ret' # ret \/ dag' # dag)) =>
             LET parent == ret'.args[1] IN
             /\ (parent \in 1..Len(dag) /\ ~dag[parent].locked) =>
                   ret'.val.err # NoErr /\ dag' = dag
             /\ (parent \in 1..Len(dag) /\ dag[parent].locked) =>
                   /\ ret'.val.err = NoErr
                   /\ ret'.val.uuid = Len(dag) + 1
                   /\ dag' = Append(dag, [parent |-> parent,
                                          locked |-> FALSE])]_vars
    /\ [][Len(dag') > Len(dag) =>
             \/ dag'[Len(dag')].parent = NoVersion
             \/ dag[dag'[Len(dag')].parent].locked]_vars

\* the test's first dataset: NewVersion(root1) has failed, Lock(root1) and
\* NewVersion(root1) have succeeded, and a grandchild followed
C29_Witness ==
    /\ ret.op = "NewVersion"
    /\ ret.val = [uuid |-> 3, err |-> NoErr]
    /\ dag = <<[parent |-> NoVersion, locked |-> TRUE],
               [parent |-> 1, locked |-> TRUE],
               [parent |-> 2, locked |-> FALSE]>>

\* a is v or an ancestor of v
RECURSIVE IsAncestorOrSelf(_, _, _)
IsAncestorOrSelf(d, a, v) ==
    IF v = NoVersion THEN FALSE
    ELSE IF a = v THEN TRUE
    ELSE IsAncestorOrSelf(d, a, d[v].parent)

\* the value written at the nearest ancestor of v, v included, that wrote
\* the key; NotFound if none wrote it or the nearest write is a delete
NearestWrite(kv, d, v, key) ==
    LET writers == {a \in 1..Len(d) : /\ IsAncestorOrSelf(d, a, v)
                                      /\ <<key, a>> \in DOMAIN kv}
    IN IF writers = {} THEN NotFound
       ELSE LET a == CHOOSE x \in writers :
                        \A y \in writers : IsAncestorOrSelf(d, y, x)
            IN IF kv[<<key, a>>] = Tombstone THEN NotFound
                                             ELSE kv[<<key, a>>]

\* C30: a versioned get at version v returns the value written at the
\* nearest ancestor of v (v included) that wrote the key; a put at version v
\* changes what is read at v and at descendants of v only: the reads at every
\* other version, the ancestors of v among them, return what they returned
\* before the put.
C30_NearestAncestor ==
    /\ [](\A v \in 1..Len(dag), key \in VersionedKeys :
             versioned_get(versioned, dag, v, key)
                 = NearestWrite(versioned, dag, v, key))
    /\ [][(ret'.op = "versioned_get" /\ ret' # ret) =>
             ret'.val = NearestWrite(versioned, dag, ret'.args[1],
                                     ret'.args[2])]_vars
    /\ [][(ret'.op = "versioned_put" /\ versioned' # versioned) =>
             LET v == ret'.args[1] IN
             /\ versioned_get(versioned', dag', v, ret'.args[2])
                   = ret'.args[3]
             /\ \A u \in 1..Len(dag), key \in VersionedKeys :
                   ~IsAncestorOrSelf(dag, v, u) =>
                       versioned_get(versioned', dag', u, key)
                           = versioned_get(versioned, dag, u, key)]_vars

\* version 2 wrote b over its parent's a: its child reads b
C30_Witness ==
    /\ dag[2].parent = 1 /\ dag[3].parent = 2
    /\ versioned = (<<"k", 1>> :> "a") @@ (<<"k", 2>> :> "b")
    /\ ret = [op |-> "versioned_get", args |-> <<3, "k">>, val |-> "b"]

----------------------------------------------------------------------------
(* The sync request of a labelsz data instance *)

outsideSync ==
    <<routingVars, filelogVars, logVars, labelszVars, datastoreVars,
      serviceVars, roiVars>>

\* the data instances of the repository and their data types
DataInstances ==
    ("synapses" :> "annotation") @@ ("synapses2" :> "annotation")
        @@ ("grayscale" :> "grayscale8")

\* the body of a sync request: whether it is JSON with a "sync" property,
\* and the names of the comma-delimited list of that property
SyncBody(ok, names) == [ok |-> ok, names |-> names]

SyncBodies ==
    {SyncBody(FALSE, <<>>), SyncBody(TRUE, <<"synapses">>),
     SyncBody(TRUE, <<"synapses2">>),
     SyncBody(TRUE, <<"synapses", "synapses2">>),
     SyncBody(TRUE, <<"missing">>), SyncBody(TRUE, <<"grayscale">>),
     SyncBody(TRUE, <<"synapses", "grayscale">>)}

NameSet(names) == {names[k] : k \in 1..Len(names)}

\* datastore.SetSyncByJSON that sets the syncs of a synced instance as well
SetSyncByJSON_Replace(synced, body) ==
    IF ~body.ok THEN [synced |-> synced, err |-> "malformed JSON"]
    ELSE IF \E n \in NameSet(body.names) : n \notin DOMAIN DataInstances
        THEN [synced |-> synced, err |-> "data instance not found"]
    ELSE IF \E n \in NameSet(body.names) : DataInstances[n] # "annotation"
        THEN [synced |-> synced, err |-> "not an annotation data instance"]
    ELSE [synced |-> NameSet(body.names), err |-> NoErr]

\* datastore.SetSyncByJSON(d, uuid, r.Body): the syncs of the instance after
\* the call, and the error.  The named instances must exist and be
\* annotation data instances, and the syncs of an instance are set once.
SetSyncByJSON(synced, body) ==
    IF ~body.ok THEN [synced |-> synced, err |-> "malformed JSON"]
    ELSE IF \E n \in NameSet(body.names) : n \notin DOMAIN DataInstances
        THEN [synced |-> synced, err |-> "data instance not found"]
    ELSE IF \E n \in NameSet(body.names) : DataInstances[n] # "annotation"
        THEN [synced |-> synced, err |-> "not an annotation data instance"]
    ELSE IF synced # {}
        THEN [synced |-> synced, err |-> "it is not allowed to change syncs"]
    ELSE [synced |-> NameSet(body.names), err |-> NoErr]

\* ServeHTTP, case "sync", on the instance named d
ServeHTTP_sync(d, action, body) ==
    LET out == SetSyncByJSON(syncedData[d], body)
        resp == IF action # "post"
                    THEN BadRequest("Only POST allowed to sync endpoint")
                ELSE IF out.err # NoErr THEN BadRequest(out.err)
                ELSE [status |-> 200, labels |-> <<>>, err |-> NoErr]
    IN /\ syncedData' =
              IF action = "post"
                  THEN [syncedData EXCEPT ![d] = out.synced]
                  ELSE syncedData
       /\ ret' = [op |-> "ServeHTTP sync", args |-> <<d, action, body>>,
                  val |-> resp]
       /\ UNCHANGED outsideSync

NextSync ==
    \/ \E d \in LabelszNames, body \in SyncBodies :
          ServeHTTP_sync(d, "post", body)
    \/ \E d \in LabelszNames :
          ServeHTTP_sync(d, "get", SyncBody(TRUE, <<"synapses">>))

SpecSync == Init /\ [][NextSync]_vars

----------------------------------------------------------------------------
(* Claims on the sync request *)

\* C31: the syncs of a labelsz instance are fixed by its first sync request:
\* a sync request that succeeds leaves the instance with the sources it
\* names, and from then on no step changes the syncs of that instance.
C31_SyncsFixed ==
    /\ []((ret.op = "ServeHTTP sync" /\ ret.val.status = 200) =>
             /\ syncedData[ret.args[1]] # {}
             /\ syncedData[ret.args[1]] = NameSet(ret.args[3].names))
    /\ [][\A d \in LabelszNames :
             syncedData[d] # {} => syncedData'[d] = syncedData[d]]_vars

\* labelsz1 is synced with synapses, and a later request to sync it with
\* synapses2 has been answered
C31_Witness ==
    /\ syncedData["labelsz1"] = {"synapses"}
    /\ ret.op = "ServeHTTP sync"
    /\ ret.args = <<"labelsz1", "post", SyncBody(TRUE, <<"synapses2">>)>>

----------------------------------------------------------------------------
(* The datasets configuration across Shutdown and Open *)

\* the data types compiled into the executable
SupportedTypes == {"grayscale8", "labels64"}

\* the root version of the dataset that version v belongs to
RECURSIVE RootOf(_, _)
RootOf(d, v) == IF d[v].parent = NoVersion THEN v ELSE RootOf(d, d[v].parent)

\* service.DatasetsJSON(): the JSON text, as the sequence of its datasets in
\* the order of their creation, each with its versions and, in the order of
\* their names, its data instances
DatasetsJSON(d, inst) ==
    LET roots == SelectSeq([v \in 1..Len(d) |-> v],
                           LAMBDA v : d[v].parent = NoVersion)
        nodes(r) == SelectSeq([v \in 1..Len(d) |-> v],
                              LAMBDA v : RootOf(d, v) = r)
        keys(r) == SelectSeq(KeyOrder(Len(d)),
                             LAMBDA k : k[1] = r /\ k \in DOMAIN inst)
    IN  [j \in 1..Len(roots) |->
            [Root |-> roots[j],
             Nodes |-> [n \in 1..Len(nodes(roots[j])) |->
                           [UUID |-> nodes(roots[j])[n],
                            Parent |-> d[nodes(roots[j])[n]].parent,
                            Locked |-> d[nodes(roots[j])[n]].locked]],
             DataMap |-> [n \in 1..Len(keys(roots[j])) |->
                             [Name |-> keys(roots[j])[n][2],
                              TypeName |-> inst[keys(roots[j])[n]].typename,
                              Versioned |->
                                  inst[keys(roots[j])[n]].versioned]]]]

\* service.NewData(root, typename, name, versioned)
NewData(root, typename, name, isVersioned) ==
    /\ service = "open"
    /\ IF /\ root \in 1..Len(dag)
          /\ dag[root].parent = NoVersion
          /\ typename \in SupportedTypes
          /\ <<root, name>> \notin DOMAIN instances
           THEN /\ instances' =
                       Put(instances, <<root, name>>,
                           [typename |-> typename, versioned |-> isVersioned])
                /\ Saves(dag, instances')
                /\ ServiceReturns("NewData",
                                  <<root, typename, name, isVersioned>>,
                                  [err |-> NoErr])
           ELSE /\ UNCHANGED <<instances, metadata>>
                /\ ServiceReturns("NewData",
                                  <<root, typename, name, isVersioned>>,
                                  [err |-> "cannot create data"])
    /\ UNCHANGED <<datastoreVars, service>>

CallDatasetsJSON ==
    /\ service = "open"
    /\ ServiceReturns("DatasetsJSON", <<>>,
                      [json |-> DatasetsJSON(dag, instances), err |-> NoErr])
    /\ UNCHANGED <<datastoreVars, serviceVars>>

\* service.Shutdown() that closes the metadata store without a flush
Service_Shutdown_NoFlush ==
    /\ service = "open"
    /\ service' = "shutdown"
    /\ metadata' = [metadata EXCEPT !.buffer = <<>>]
    /\ dag' = <<>>
    /\ instances' = EmptyMap
    /\ ServiceReturns("Shutdown", <<>>, [err |-> NoErr])
    /\ UNCHANGED versioned

\* service.Shutdown(): the stores are closed, each store flushes; the
\* service and what it held in memory are gone
Service_Shutdown ==
    /\ service = "open"
    /\ service' = "shutdown"
    /\ metadata' = [buffer |-> <<>>,
                    disk |-> IF metadata.buffer # <<>>
                                 THEN metadata.buffer[1] ELSE metadata.disk]
    /\ dag' = <<>>
    /\ instances' = EmptyMap
    /\ ServiceReturns("Shutdown", <<>>, [err |-> NoErr])
    /\ UNCHANGED versioned

\* datastore.Open(dir): a new service that loads the datasets configuration
\* from the metadata store of the directory
datastore_Open ==
    /\ service = "shutdown"
    /\ service' = "open"
    /\ dag' = DecodeDatasets(metadata.disk).dag
    /\ instances' = DecodeDatasets(metadata.disk).instances
    /\ ServiceReturns("Open", <<>>, [err |-> NoErr])
    /\ UNCHANGED <<versioned, metadata>>

\* the calls of NewData: those of the test, a second instance of the first
\* dataset, an unsupported data type and a version that is no root
NewDataCalls ==
    {<<1, "grayscale8", "node1image", FALSE>>,
     <<2, "grayscale8", "node2image", FALSE>>,
     <<1, "labels64", "node2image", TRUE>>,
     <<1, "rgba9", "node2image", FALSE>>,
     <<MaxVersions, "grayscale8", "node1image", FALSE>>}

NextPersistence ==
    \/ NewDataset
    \/ \E uuid \in {1, MaxVersions} : Lock(uuid)
    \/ NewVersion(1)
    \/ \E c \in NewDataCalls : NewData(c[1], c[2], c[3], c[4])
    \/ CallDatasetsJSON
    \/ Service_Shutdown
    \/ datastore_Open

SpecPersistence == Init /\ [][NextPersistence]_vars

----------------------------------------------------------------------------
(* Claims on persistence *)

\* what DatasetsJSON returns for the configuration that the directory holds
StoredJSON(m) ==
    DatasetsJSON(DecodeDatasets(m.disk).dag, DecodeDatasets(m.disk).instances)

\* C32: the datasets configuration persists across shutdown: the directory
\* that Shutdown leaves holds the configuration for which DatasetsJSON
\* returned its value before the shutdown, nothing changes it while the
\* service is shut down, and after Open of the same directory DatasetsJSON
\* returns exactly that value again.
C32_DatasetsPersist ==
    /\ [][(service = "open" /\ service' = "shutdown") =>
             StoredJSON(metadata') = DatasetsJSON(dag, instances)]_vars
    /\ [][service = "shutdown" =>
             /\ metadata' = metadata
             /\ service' = "open" =>
                   DatasetsJSON(dag', instances') = StoredJSON(metadata)]_vars
    /\ []((ret.op = "DatasetsJSON" /\ service = "open") =>
             ret.val = [json |-> DatasetsJSON(dag, instances),
                        err |-> NoErr])

\* the test: two datasets with a data instance each, a shutdown, an Open of
\* the same directory and then DatasetsJSON
C32_Witness ==
    /\ service = "open"
    /\ metadata = [buffer |-> <<>>,
                   disk |-> EncodeDatasets(dag, instances)]
    /\ Len(dag) = 2
    /\ DOMAIN instances = {<<1, "node1image">>, <<2, "node2image">>}
    /\ ret.op = "DatasetsJSON"
    /\ Len(ret.val.json) = 2
    /\ Len(ret.val.json[1].DataMap) = 1

----------------------------------------------------------------------------
(* The static ROI filter of the annotation events *)

outsideRoi ==
    <<routingVars, ret, filelogVars, logVars, labelszVars, datastoreVars,
      syncVars, serviceVars>>

\* the positions of annotation elements
Positions == {"p1", "p2"}

\* the ROI that the spec "roi1" names: it holds p1 and not p2
LoadedROI == {"p1"}

\* iROI.VoxelWithin(e.Pos)
VoxelWithin(r, pos) == pos \in r

\* the largest number of annotation events the instance receives
MaxEvents == 3

\* the annotation events of the filter: adds and deletes of elements
RoiEvents ==
    {Event("add", 0, 0, 1), Event("add", 0, 0, 2), Event("delete", 0, 1, 0)}

\* A goroutine receives an annotation event with its position and calls
\* d.inROI for it.
HandlerBegin(g, e, pos) ==
    /\ handlers[g].pc = "idle"
    /\ nEvents < MaxEvents
    /\ nEvents' = nEvents + 1
    /\ handlers' = [handlers EXCEPT
                       ![g] = [pc |-> "inROI", event |-> e, pos |-> pos,
                               result |-> FALSE]]
    /\ UNCHANGED <<staticROI, iMutex, iROI, roiChecked, nLoads>>
    /\ UNCHANGED outsideRoi

\* inROI returns
InROIReturns(g, result) ==
    handlers' = [handlers EXCEPT ![g].pc = "returned", ![g].result = result]

\* if d.StaticROI == "" { return true }
InROIStart(g) ==
    /\ handlers[g].pc = "inROI"
    /\ IF staticROI = ""
           THEN InROIReturns(g, TRUE)
           ELSE handlers' = [handlers EXCEPT ![g].pc = "lock"]
    /\ UNCHANGED <<staticROI, iMutex, iROI, roiChecked, nLoads, nEvents>>
    /\ UNCHANGED outsideRoi

\* d.iMutex.Lock()
InROILock(g) ==
    /\ handlers[g].pc = "lock"
    /\ iMutex = NoHolder
    /\ iMutex' = g
    /\ handlers' = [handlers EXCEPT ![g].pc = "check"]
    /\ UNCHANGED <<staticROI, iROI, roiChecked, nLoads, nEvents>>
    /\ UNCHANGED outsideRoi

\* inROI that does not note that the ROI has been checked
InROICheck_Unmarked(g) ==
    /\ handlers[g].pc = "check"
    /\ handlers' = [handlers EXCEPT
                       ![g].pc = IF iROI = NilROI THEN "load" ELSE "unlock"]
    /\ UNCHANGED <<staticROI, iMutex, iROI, roiChecked, nLoads, nEvents>>
    /\ UNCHANGED outsideRoi

\* if !d.roiChecked { d.roiChecked = true
InROICheck(g) ==
    /\ handlers[g].pc = "check"
    /\ IF ~roiChecked
           THEN /\ roiChecked' = TRUE
                /\ handlers' = [handlers EXCEPT ![g].pc = "load"]
           ELSE /\ UNCHANGED roiChecked
                /\ handlers' = [handlers EXCEPT ![g].pc = "unlock"]
    /\ UNCHANGED <<staticROI, iMutex, iROI, nLoads, nEvents>>
    /\ UNCHANGED outsideRoi

\* iROI, err := roi.ImmutableBySpec(d.StaticROI): with an error the mutex is
\* released and inROI returns false, else d.iROI = iROI
InROILoad(g, failed) ==
    /\ handlers[g].pc = "load"
    /\ nLoads' = nLoads + 1
    /\ IF failed
           THEN /\ iMutex' = NoHolder
                /\ InROIReturns(g, FALSE)
                /\ UNCHANGED iROI
           ELSE /\ iROI' = LoadedROI
                /\ handlers' = [handlers EXCEPT ![g].pc = "unlock"]
                /\ UNCHANGED iMutex
    /\ UNCHANGED <<staticROI, roiChecked, nEvents>>
    /\ UNCHANGED outsideRoi

\* d.iMutex.Unlock()
InROIUnlock(g) ==
    /\ handlers[g].pc = "unlock"
    /\ iMutex' = NoHolder
    /\ handlers' = [handlers EXCEPT ![g].pc = "read"]
    /\ UNCHANGED <<staticROI, iROI, roiChecked, nLoads, nEvents>>
    /\ UNCHANGED outsideRoi

\* if d.iROI == nil { return false }; return d.iROI.VoxelWithin(e.Pos)
InROIRead(g) ==
    /\ handlers[g].pc = "read"
    /\ IF iROI = NilROI
           THEN InROIReturns(g, FALSE)
           ELSE InROIReturns(g, VoxelWithin(iROI, handlers[g].pos))
    /\ UNCHANGED <<staticROI, iMutex, iROI, roiChecked, nLoads, nEvents>>
    /\ UNCHANGED outsideRoi

\* The ROI filter: an event whose position is not within the ROI is dropped.
HandlerDrop(g) ==
    /\ handlers[g].pc = "returned"
    /\ ~handlers[g].result
    /\ handlers' = [handlers EXCEPT ![g].pc = "idle"]
    /\ UNCHANGED <<staticROI, iMutex, iROI, roiChecked, nLoads, nEvents>>
    /\ UNCHANGED outsideRoi

\* An event within the ROI goes on to the mutation of the index, under the
\* write lock of the instance.
HandlerApply(g) ==
    /\ handlers[g].pc = "returned"
    /\ handlers[g].result
    /\ MutatorLock(handlers[g].event)
    /\ handlers' = [handlers EXCEPT ![g].pc = "idle"]
    /\ UNCHANGED <<staticROI, iMutex, iROI, roiChecked, nLoads, nEvents>>

StaticROIs == {"", "roi1"}

InitRoi ==
    /\ ManagerInit
    /\ FilelogInit
    /\ LogInit
    /\ SyncInit
    /\ DatastoreInit
    /\ ServiceInit
    /\ LabelszInit
    /\ staticROI \in StaticROIs
    /\ RoiIdle

NextRoi ==
    \/ \E g \in Handlers, e \in RoiEvents, pos \in Positions :
          HandlerBegin(g, e, pos)
    \/ \E g \in Handlers :
          \/ InROIStart(g)
          \/ InROILock(g)
          \/ InROICheck(g)
          \/ \E failed \in BOOLEAN : InROILoad(g, failed)
          \/ InROIUnlock(g)
          \/ InROIRead(g)
          \/ HandlerDrop(g)
          \/ HandlerApply(g)
    \/ (MutatorRead \/ MutatorDeleteSize \/ MutatorPutSize
            \/ MutatorPutRecord)

SpecRoi == InitRoi /\ [][NextRoi]_vars

----------------------------------------------------------------------------
(* Claims on the ROI filter *)

\* the one load of the ROI has failed
LoadFailed ==
    /\ roiChecked
    /\ iROI = NilROI
    /\ \A g \in Handlers : handlers[g].pc # "load"

\* C33: with a static ROI the ROI is resolved at most once, whatever the
\* interleaving of the inROI calls, and never again after a failed load;
\* after a failed load every inROI call has returned false, no event has
\* gone on to the index and the index is empty, so every count is 0; without
\* a static ROI every inROI call returns true.
C33_RoiOnce ==
    /\ [](nLoads <= 1)
    /\ [][LoadFailed => nLoads' = nLoads /\ LoadFailed']_vars
    /\ [](LoadFailed =>
             /\ \A g \in Handlers :
                   handlers[g].pc = "returned" => ~handlers[g].result
             /\ index = EmptyMap
             /\ mutator = IdleMutator
             /\ \A i \in IndexTypes, l \in SyncLabels :
                   GetCountElementType(index, l, i, NoErr, NoErr).count = 0)
    /\ [](staticROI = "" =>
             /\ nLoads = 0
             /\ \A g \in Handlers :
                   handlers[g].pc = "returned" => handlers[g].result)

\* the load has failed, an add at a position of the ROI has since been
\* received by the other goroutine and inROI has returned false for it
C33_Witness ==
    /\ LoadFailed
    /\ nLoads = 1
    /\ nEvents = MaxEvents
    /\ handlers["h2"].pc = "returned"
    /\ handlers["h2"].event.kind = "add"
    /\ handlers["h2"].pos = "p1"
    /\ handlers["h1"].pc = "idle"

----------------------------------------------------------------------------
(* Claims on Close of the write logs and on failed appends *)

\* goroutine g has written the header of its record and not yet the payload
BetweenHeaderAndPayload(g) == appends[g].pc = "Write"

\* C34: Close never closes a log file while an Append to that file is
\* between writing its header and writing its payload.
C34_CloseWaitsForAppend ==
    [][\A fl \in 1..Len(flogs) :
          (~flogs[fl].closed /\ flogs'[fl].closed) =>
              ~\E g \in Goroutines :
                  /\ BetweenHeaderAndPayload(g)
                  /\ appends[g].name = flogs[fl].name]_vars

\* fl.writeHeader fails after n of the 6 bytes of the header went to the
\* file: Append unlocks and returns the error (lines 148-151)
AppendWriteHeaderFails(g, n) ==
    /\ ~fatal
    /\ appends[g].pc = "writeHeader"
    /\ ~flogs[appends[g].fl].closed
    /\ n < 6
    /\ LET a == appends[g] IN
       fs' = IF n = 0 THEN fs
             ELSE WriteAtEnd(fs, a.name, a.id, "header",
                             SubSeq(writeHeader(a.entryType, a.p), 1, n))
    /\ flogs' = [flogs EXCEPT ![appends[g].fl].holder = "none"]
    /\ appends' = [appends EXCEPT ![g] = IdleAppend]
    /\ UNCHANGED <<files, closer, fatal, history, nAppends, overlap>>
    /\ UNCHANGED outsideFilelog

\* fl.Write(p) fails after n bytes of the payload went to the file: Append
\* unlocks and returns the error (lines 152-157)
AppendWriteFails(g, n) ==
    /\ ~fatal
    /\ appends[g].pc = "Write"
    /\ n < Len(appends[g].p)
    /\ LET a == appends[g] IN
       fs' = IF n = 0 THEN fs
             ELSE WriteAtEnd(fs, a.name, a.id, "payload", SubSeq(a.p, 1, n))
    /\ flogs' = [flogs EXCEPT ![appends[g].fl].holder = "none"]
    /\ appends' = [appends EXCEPT ![g] = IdleAppend]
    /\ UNCHANGED <<files, closer, fatal, history, nAppends, overlap>>
    /\ UNCHANGED outsideFilelog

\* the write logs on a file system whose writes can fail
NextFilelogFaulty ==
    \/ \E g \in Goroutines, entry \in LogEntries, pair \in LogPairs :
          AppendBegin(g, entry[1], pair[1], pair[2], entry[2])
    \/ \E g \in Goroutines : GetLogFileLookup(g)
    \/ \E g \in Goroutines, opens \in BOOLEAN : GetLogFileOpen(g, opens)
    \/ \E g \in Goroutines : GetLogFileFatal(g)
    \/ \E g \in Goroutines : AppendLock(g)
    \/ \E g \in Goroutines : AppendWriteHeader(g)
    \/ \E g \in Goroutines : AppendWrite(g)
    \/ CloseBegin
    \/ \E fl \in closer.todo : CloseFlog(fl)
    \/ Reopen
    \/ \E g \in Goroutines, n \in {0, 3} : AppendWriteHeaderFails(g, n)
    \/ \E g \in Goroutines, n \in {0} : AppendWriteFails(g, n)

SpecFilelogFaulty == Init /\ [][NextFilelogFaulty]_vars

\* the bytes are whole records: each a header of 6 bytes followed by as
\* many bytes of payload as the header announces
RECURSIVE WholeRecords(_)
WholeRecords(bytes) ==
    IF bytes = <<>> THEN TRUE
    ELSE IF Len(bytes) < 6 THEN FALSE
    ELSE LET header == readHeader(SubSeq(bytes, 1, 6)) IN
         IF Len(bytes) < 6 + header.size THEN FALSE
         ELSE WholeRecords(SubSeq(bytes, 7 + header.size, Len(bytes)))

\* the records of s are among the records of t, in their order
RECURSIVE IsSubsequence(_, _)
IsSubsequence(s, t) ==
    IF s = <<>> THEN TRUE
    ELSE IF t = <<>> THEN FALSE
    ELSE IF Head(s) = Head(t) THEN IsSubsequence(Tail(s), Tail(t))
    ELSE IsSubsequence(s, Tail(t))

\* C35: a log file stays record-framed after failures: when Append calls
\* made one after the other have returned, some of them with an error, each
\* file reads back as whole records only, and the records of the calls that
\* returned nil are among them, in their order.
C35_FramedAfterFailure ==
    (~overlap /\ NoAppendInProgress) =>
        \A k \in DOMAIN fs :
            /\ WholeRecords(FileBytes(fs[k]))
            /\ IsSubsequence(Appended(k), ReadRecords(FileBytes(fs[k])))

\* Close never closes a *flog while an Append holds the mutex of that *flog
CloseWaitsForHolder ==
    [][\A fl \in 1..Len(flogs) :
          (~flogs[fl].closed /\ flogs'[fl].closed) =>
              ~\E g \in Goroutines :
                  /\ BetweenHeaderAndPayload(g)
                  /\ appends[g].fl = fl]_vars

----------------------------------------------------------------------------
(* Shutdown of the log message queue, pass after pass.  The number of       *)
(* passes of the loop of Shutdown has no bound, so these steps keep no      *)
(* count of the messages and no record of what was written.                 *)

\* `if len(logCh) > 0 { Infof(...) ... } else { break }`
ShutdownPassCheck ==
    /\ shutdown.pc = "check"
    /\ shutdown' = [shutdown EXCEPT
                       !.pc = IF Len(logCh) > 0 THEN "Infof" ELSE "close"]
    /\ UNCHANGED <<mode, logCh, logChClosed, consumer, written, callers,
                   nIssued, nAccepted>>
    /\ UNCHANGED <<outsideLog, ret>>

\* Infof("Waiting for %d log messages to write...") up to the send; when the
\* mode filters the message out, time.Sleep and the next iteration follow
ShutdownPassInfof ==
    /\ shutdown.pc = "Infof"
    /\ shutdown' = [shutdown EXCEPT
                       !.pc = IF Passes("Infof", mode) THEN "send"
                                                       ELSE "check"]
    /\ UNCHANGED <<mode, logCh, logChClosed, consumer, written, callers,
                   nIssued, nAccepted>>
    /\ UNCHANGED <<outsideLog, ret>>

\* the send of that Infof, time.Sleep and the next iteration
ShutdownPassSend ==
    /\ shutdown.pc = "send"
    /\ CanSend(logCh)
    /\ logCh' = Append(logCh, [id |-> 0, f |-> LoggerFn("Infof")])
    /\ shutdown' = [shutdown EXCEPT !.pc = "check"]
    /\ UNCHANGED <<mode, logChClosed, consumer, written, callers, nIssued,
                   nAccepted>>
    /\ UNCHANGED <<outsideLog, ret>>

\* msg.f(msg.msg)
ConsumerWritePass ==
    /\ consumer.pc = "f"
    /\ consumer' = [pc |-> "range", msg |-> NoMessage]
    /\ UNCHANGED <<mode, logCh, logChClosed, written, callers, shutdown,
                   nIssued, nAccepted>>
    /\ UNCHANGED <<outsideLog, ret>>

\* the steps of Shutdown
ShutdownPassSteps ==
    \/ ShutdownPassCheck
    \/ ShutdownPassInfof
    \/ ShutdownPassSend
    \/ ShutdownClose
    \/ ShutdownReturn

\* Two goroutines log until Shutdown is called; from then on only Shutdown
\* issues logging calls.
NextShutdown ==
    \/ \E c \in Callers, fn \in {"Infof", "TimeLog.Warningf"} :
          shutdown.pc = "idle" /\ LogCall(c, fn)
    \/ \E c \in Callers : LogSend(c)
    \/ ConsumerReceive
    \/ ConsumerExit
    \/ ConsumerWritePass
    \/ ShutdownBegin
    \/ ShutdownPassSteps

\* the scheduler lets the consumer goroutine and the goroutine of Shutdown
\* run
SpecShutdownFair ==
    /\ Init
    /\ [][NextShutdown]_vars
    /\ WF_vars(ConsumerReceive)
    /\ WF_vars(ConsumerExit)
    /\ WF_vars(ConsumerWritePass)
    /\ WF_vars(ShutdownPassSteps)

----------------------------------------------------------------------------
(* Claim on the termination of Shutdown *)

\* C36: when no other goroutine issues a logging call after Shutdown is
\* called and the consumer is scheduled fairly, Shutdown returns in the end.
C36_ShutdownReturns ==
    (shutdown.pc # "idle") ~> (shutdown.pc = "done")

----------------------------------------------------------------------------
(* Claims on failed Initialize calls, Close and the assigned store *)

\* the last Initialize call has returned an error
InitializeFailed ==
    /\ call.pc = "idle"
    /\ initRet.called
    /\ initRet.err # NoErr

\* C37: whenever Initialize has returned an error, a failure of the setup of
\* the graph store included, setup is false and every lookup is rejected.
C37_FailedInitializeNotSetup ==
    InitializeFailed =>
        /\ ~setup
        /\ AllStores.err # NoErr
        /\ ret.op \notin {"none", "Close"} => ret.val.err # NoErr

\* C38: a Close closes every store the Initialize before it has opened and
\* put into manager.stores, whether that Initialize succeeded or failed
\* part-way, each of them once; a Close that follows a Close closes nothing.
C38_StoresClosedOnce ==
    [][Close => /\ ret'.closed = DOMAIN stores
                /\ ret.op = "Close" => ret'.closed = {}]_vars

\* the *flog values of the file k that are open
OpenHandles(k) ==
    {fl \in 1..Len(flogs) : flogs[fl].name = k /\ ~flogs[fl].closed}

\* C39: under any interleaving of Append calls and Close, the log store holds
\* at most one open file handle, with its one mutex, for each pair (data
\* instance, version): two first appends to a pair never make two handles.
C39_OneHandlePerFile ==
    \A k \in DOMAIN fs : Cardinality(OpenHandles(k)) <= 1

\* the store that GetAssignedStore resolves before it looks at the groupcache
ResolvedStore(dataname, root, typename) ==
    LET dataid == GetDataSpecifier(dataname, root)
    IN  IF dataid \in DOMAIN instanceStore
            THEN instanceStore[dataid]
            ELSE assignedStoreByType(typename).store

====
